---- MODULE Spec2Model ----
(***************************************************************************)
(* Veritas investigation orchestrator (src/src/lib/services/               *)
(* VeritasInvestigator.ts), its two de-duplicated collectors               *)
(* (fetchDexScreenerData, fetchRugCheck), the fast lane route and the      *)
(* deterministic scorer.                                                   *)
(*                                                                         *)
(* One action is one turn of the JavaScript event loop: the synchronous    *)
(* code from the resumption of an await up to the next suspension.         *)
(* Time is counted in ticks of 30 seconds; cache entries carry the number  *)
(* of ticks they still live.                                               *)
(***************************************************************************)
EXTENDS Integers, Sequences, FiniteSets, TLC

NULL == "null"

Min(a, b) == IF a <= b THEN a ELSE b
Max(a, b) == IF a >= b THEN a ELSE b

(***************************************************************************)
(* Bounds of the model.                                                    *)
(***************************************************************************)
MaxInvocations == 2
CacheInvocations == 3
MaxConcurrent == 2
MaxTicks == 1
MaxEntries == 2
SCAN_LIMIT == 3
EvInvocations == 1
LiveInvocations == 1
MaxScans == 3

Calls == 1..MaxConcurrent

(***************************************************************************)
(* Program constants.  One tick is 30 000 ms.                              *)
(***************************************************************************)
RESULT_TTL == 10
DEX_TTL == 1
RC_TTL == 1
SCORE_CAP == 88
NUKE_CAP == 50
SAFE_MIN == 70
CAUTION_MIN == 40
LIQ_FLOOR == 5000
RUG_HIGH == 500
RUG_MED == 200

(***************************************************************************)
(* computeTrustScore: the deterministic scorer.  Amounts are whole USD,    *)
(* percentages whole percents, the age is in minutes (ageInHours < 1 is    *)
(* ageMin < 60), liquidity / marketCap < 0.02 is liquidity * 50 <          *)
(* marketCap.  market and rug are NULL or a record.                        *)
(***************************************************************************)
NoMarket == [present |-> FALSE, liquidity |-> 0, marketCap |-> 0]
Market(l, m) == [present |-> TRUE, liquidity |-> l, marketCap |-> m]
NoRug == [present |-> FALSE, score |-> 0]
Rug(s) == [present |-> TRUE, score |-> s]

authPenalty(auth) == IF auth # NULL THEN 40 ELSE 0

holderPenalty_tiersSwapped(top10) ==
  IF top10 > 50 THEN 10 ELSE IF top10 > 30 THEN 15 ELSE 0

holderPenalty(top10) ==
  IF top10 > 50 THEN 15 ELSE IF top10 > 30 THEN 10 ELSE 0

liquidityPenalty(market) ==
  IF ~market.present THEN 0
  ELSE IF market.liquidity < LIQ_FLOOR THEN 20
  ELSE IF market.marketCap > 0 /\ market.liquidity * 50 < market.marketCap THEN 15
  ELSE 0

agePenalty(ageMin) == IF ageMin < 60 THEN 10 ELSE 0

rugPenalty(rug) ==
  IF ~rug.present THEN 0
  ELSE IF rug.score > RUG_HIGH THEN 20
  ELSE IF rug.score > RUG_MED THEN 10
  ELSE 0

clampScore_noCap(score) == Min(100, Max(0, score))

clampScore(score) == Min(SCORE_CAP, Max(0, score))

computeTrustScore_freezeIgnored(in) ==
  LET s1 == 100 - authPenalty(in.mintAuth)
      s3 == s1 - holderPenalty(in.top10)
      s4 == s3 - (IF in.isDumped THEN 15 ELSE 0)
      s5 == s4 - (IF in.isWhale THEN 10 ELSE 0)
      s6 == s5 - liquidityPenalty(in.market)
      s7 == s6 - agePenalty(in.ageMin)
      s8 == s7 - rugPenalty(in.rug)
  IN  clampScore(s8)

computeTrustScore(in) ==
  LET s1 == 100 - authPenalty(in.mintAuth)
      s2 == s1 - authPenalty(in.freezeAuth)
      s3 == s2 - holderPenalty(in.top10)
      s4 == s3 - (IF in.isDumped THEN 15 ELSE 0)
      s5 == s4 - (IF in.isWhale THEN 10 ELSE 0)
      s6 == s5 - liquidityPenalty(in.market)
      s7 == s6 - agePenalty(in.ageMin)
      s8 == s7 - rugPenalty(in.rug)
  IN  clampScore(s8)

ScoreInput(ma, fa, t, mk, d, w, r, a) ==
  [mintAuth |-> ma, freezeAuth |-> fa, top10 |-> t, market |-> mk,
   isDumped |-> d, isWhale |-> w, rug |-> r, ageMin |-> a]

(***************************************************************************)
(* The inputs the scorer is explored on: every threshold from both sides.  *)
(***************************************************************************)
AuthValues == {NULL, "A"}
Top10Values == {12, 30, 31, 50, 51, 80}
MarketValues ==
  {NoMarket, Market(50000, 200000), Market(400, 200000), Market(4999, 0),
   Market(5000, 250000), Market(5000, 250001), Market(6000, 0)}
RugValues == {NoRug, Rug(20), Rug(200), Rug(201), Rug(500), Rug(501)}
AgeValues == {0, 59, 60, 4320}

ScoreInputs ==
  {ScoreInput(ma, fa, t, mk, d, w, r, a) :
     ma \in AuthValues, fa \in AuthValues, t \in Top10Values,
     mk \in MarketValues, d \in BOOLEAN, w \in BOOLEAN,
     r \in RugValues, a \in AgeValues}

CleanToken ==
  ScoreInput(NULL, NULL, 12, Market(50000, 200000), FALSE, FALSE, Rug(20), 4320)

RugPattern(w, r, a) ==
  ScoreInput("A", "A", 80, Market(400, 200000), TRUE, w, r, a)


(***************************************************************************)
(* The world the collectors read.  Addresses are opaque strings; " tokA "  *)
(* is tokA with surrounding whitespace, "bad" is not base58.  "ghost" is   *)
(* well formed but is no account of the ledger.                            *)
(***************************************************************************)
Keys == {"tokA", "tokA2", "tokN"}
Addresses == Keys \cup {"ghost", " tokA ", "bad"}
FastAddresses == Keys \cup {"ghost", " tokA "}
DedupKeys == Keys \cup {" tokA "}
Creators == {"A", "B"}

trim(a) == IF a = " tokA " THEN "tokA" ELSE a

isValidPublicKey(a) == a \in Keys \cup {"ghost"}

OnLedger(a) == a \in Keys

TokenInfo(a) ==
  CASE a = "tokA"  -> [mintAuthority |-> "A",  freezeAuthority |-> "B", supply |-> 1000]
    [] a = "tokA2" -> [mintAuthority |-> NULL, freezeAuthority |-> "A", supply |-> 1000]
    [] OTHER       -> [mintAuthority |-> NULL, freezeAuthority |-> NULL, supply |-> 1000]

PairData(a) ==
  CASE a = "tokA"  -> [liquidity |-> 400,   marketCap |-> 200000,  ageMin |-> 30,   website |-> "https://x.com/toka"]
    [] a = "tokA2" -> [liquidity |-> 6000,  marketCap |-> 1000000, ageMin |-> 4320, website |-> "https://toka2.io"]
    [] OTHER       -> [liquidity |-> 50000, marketCap |-> 200000,  ageMin |-> 4320, website |-> "https://tokn.io"]

(* A holder of the list of getHolderDistribution (lines 518-521): the
   address of a token account, the percentage of the supply it holds, and
   the wallet that owns the account (lines 497-505). *)
Holder(address, owner, percentage) ==
  [address |-> address, owner |-> owner, percentage |-> percentage]

HolderData(a) ==
  CASE a = "tokA"  -> [top10 |-> 80, topHolders |-> <<Holder("acct1", "other", 50),
                                                      Holder("acct2", "A", 30)>>]
    [] a = "tokA2" -> [top10 |-> 25, topHolders |-> <<Holder("acct1", "other", 20),
                                                      Holder("A", "A", 5)>>]
    [] OTHER       -> [top10 |-> 12, topHolders |-> <<Holder("acct1", "other", 12)>>]

RugScore(a) ==
  CASE a = "tokA" -> 501 [] a = "tokA2" -> 250 [] OTHER -> 20

HistoryCount(creator) == IF creator = "A" THEN 3 ELSE 0

(***************************************************************************)
(* What the reasoning service may answer: a score already clamped to       *)
(* [0,100] by parseUnifiedResponse, and a visualAnalysis text, which is    *)
(* one of: "" (absent), a text asserting reuse, a text asserting reuse of  *)
(* meme-culture imagery, a text denying reuse; and a verdict string of its *)
(* own (parsed.verdict), which investigate never reads.                    *)
(***************************************************************************)
AIScores == {10, 60, 95}
VisualTexts == {"", "VISUAL ASSET REUSE: YES", "VISUAL ASSET REUSE: YES pepe", "VISUAL ASSET REUSE: NO"}
AIVerdicts == {"Safe", "Caution", "Danger"}
NoAI == [score |-> -1, visual |-> "", verdict |-> "none"]
AIJudgments == [score : AIScores, visual : VisualTexts, verdict : AIVerdicts]

(***************************************************************************)
(* parseUnifiedResponse (unified-analyzer.ts 205-240).  The text of the    *)
(* reasoning service either holds a JSON object or makes JSON.parse throw. *)
(* The value in the place of trustScore is any JSON value or is absent:    *)
(* a number, a text that reads as a number ("75"), a text that does not,   *)
(* the empty text, null, true or false.  Number() converts it as           *)
(* JavaScript does: a number and a numeric text to their value, null, the  *)
(* empty text and false to 0, true to 1, anything else to NaN.  x || 50    *)
(* replaces NaN and 0, the two falsy numbers, by 50.                       *)
(***************************************************************************)
Value(kind, n) == [kind |-> kind, n |-> n]
ScoreNumbers == {-5, 0, 10, 60, 95, 100, 150}
ScoreValues ==
  {Value(k, 0) : k \in {"absent", "null", "text", "emptyText", "true", "false"}}
    \cup {Value("number", n) : n \in ScoreNumbers}
    \cup {Value("numericText", 75)}

NaN == [nan |-> TRUE, n |-> 0]
Num(n) == [nan |-> FALSE, n |-> n]

Number(v) ==
  CASE v.kind \in {"number", "numericText"} -> Num(v.n)
    [] v.kind \in {"null", "emptyText", "false"} -> Num(0)
    [] v.kind = "true" -> Num(1)
    [] OTHER -> NaN

orElse(x, d) == IF x.nan \/ x.n = 0 THEN d ELSE x.n

parseScore_zeroKept(v) ==
  LET x == Number(v) IN Min(100, Max(0, IF x.nan THEN 50 ELSE x.n))

parseScore(v) == Min(100, Max(0, orElse(Number(v), 50)))

Unparseable ==
  [json |-> FALSE, trustScore |-> Value("absent", 0), visualAnalysis |-> "", verdict |-> ""]
ModelResponses ==
  {Unparseable} \cup
  [json : {TRUE}, trustScore : ScoreValues, visualAnalysis : VisualTexts,
   verdict : AIVerdicts \cup {""}]

parseUnifiedResponse(text) ==
  IF ~text.json
  THEN NoAI
  ELSE [score |-> parseScore(text.trustScore), visual |-> text.visualAnalysis,
        verdict |-> IF text.verdict = "" THEN "Caution" ELSE text.verdict]

reuseYes(v) == v \in {"VISUAL ASSET REUSE: YES", "VISUAL ASSET REUSE: YES pepe"}
reuseNo(v) == v = "VISUAL ASSET REUSE: NO"
memeCulture(v) == v = "VISUAL ASSET REUSE: YES pepe"

isRealWebsite(url) == url # NULL /\ url # "https://x.com/toka"

(***************************************************************************)
(* investigate, lines 131 and 234-265: the creator proxy, the blend under  *)
(* the ceiling, the template override and the verdict tiers.               *)
(***************************************************************************)
creatorOf_freezeFirst(info) ==
  IF info.freezeAuthority # NULL THEN info.freezeAuthority ELSE info.mintAuthority

creatorOf_mintOnly(info) == info.mintAuthority

creatorOf(info) ==
  IF info.mintAuthority # NULL THEN info.mintAuthority ELSE info.freezeAuthority

ceiling_aiWins(det, ai) == ai

ceiling(det, ai) == Min(det, ai)

templateNuke_noShotGuard(shot, visual, score) ==
  visual # "" /\ reuseYes(visual) /\ ~memeCulture(visual) /\ score > NUKE_CAP

templateNuke_noMemeGuard(shot, visual, score) ==
  shot /\ visual # "" /\ reuseYes(visual) /\ score > NUKE_CAP

templateNuke(shot, visual, score) ==
  shot /\ visual # "" /\ reuseYes(visual) /\ ~memeCulture(visual) /\ score > NUKE_CAP

finalScoreOf_higher(det, ai, shot, visual) ==
  LET s == Max(det, ai)
  IN  IF templateNuke(shot, visual, s) THEN NUKE_CAP ELSE s

finalScoreOf(det, ai, shot, visual) ==
  LET s == ceiling(det, ai)
  IN  IF templateNuke(shot, visual, s) THEN NUKE_CAP ELSE s

verdictOf_cautionFrom50(score) ==
  IF score >= SAFE_MIN THEN "Safe" ELSE IF score >= 50 THEN "Caution" ELSE "Danger"

verdictOf(score) ==
  IF score >= SAFE_MIN THEN "Safe" ELSE IF score >= CAUTION_MIN THEN "Caution" ELSE "Danger"

(* topHolders.find(h => h.address === creatorAddress), lines 544-547: the
   percentage of the first holder whose address is the creator's, else 0. *)
creatorPercentageOf(topHolders, creatorAddress) ==
  LET found == SelectSeq(topHolders, LAMBDA h : h.address = creatorAddress)
  IN  IF creatorAddress # "Unknown" /\ found # <<>> THEN found[1].percentage ELSE 0

(* analyzeCreator, lines 536-551. *)
analyzeCreator(mintAuth, freezeAuth, topHolders, supply) ==
  LET creator == creatorOf([mintAuthority |-> mintAuth, freezeAuthority |-> freezeAuth])
      creatorAddress == IF creator # NULL THEN creator ELSE "Unknown"
      pct == creatorPercentageOf(topHolders, creatorAddress)
  IN  [creatorAddress |-> creatorAddress, creatorPercentage |-> pct,
       isDumped |-> creatorAddress # "Unknown" /\ pct < 1 /\ supply > 0,
       isWhale |-> pct > 20]


(***************************************************************************)
(* State.                                                                  *)
(*   calls        one record per invocation of investigate (lane "full")   *)
(*                or of the fast route (lane "fast")                       *)
(*   resultCache  the LRU result cache of VeritasInvestigator.ts           *)
(*   dexCache, dexInflight, rcCache, rcInflight                            *)
(*                the dedup caches and in-flight maps of the collectors;   *)
(*                an in-flight entry names the invocation whose request it *)
(*                is (0: no entry)                                         *)
(*   registry     the known-offender registry: detection count per creator *)
(*                address (0: no record)                                   *)
(*   rcLimited    history: per key, whether the last audit request settled *)
(*                with a 429                                               *)
(*   lateEntry    history: per key, which of the cached dex/rc outcomes    *)
(*                came from a request issued after an expiry or a 429      *)
(*   lastFull, prevFull                                                    *)
(*                history: per key the full-pipeline result returned most  *)
(*                recently and the one it displaced, each with the ticks   *)
(*                left of the 5 minutes since it was returned              *)
(*   scIn, scOut  the scorer's argument and value                          *)
(*   sizes        the keys held by the three process-wide caches, for the  *)
(*                study of their size (SpecSize)                           *)
(*   answered     history: the subjects (trimmed addresses) that           *)
(*                investigate has answered through the known-offender      *)
(*                fast path                                                *)
(*   parser       a response of the reasoning service and what             *)
(*                parseUnifiedResponse made of it (SpecParse)              *)
(*   scanner      one call of the legacy scanner's getTokenMintInfo: its   *)
(*                position, its retryCount and the endpoints it has asked  *)
(*                (SpecRetry)                                              *)
(***************************************************************************)
VARIABLES calls, budget, tickBudget, resultCache, dexCache, rcCache, dexInflight,
          rcInflight, rcLimited, lateEntry, registry, lastFull, prevFull, scIn, scOut, scPrev,
          sizes, historian, bot, profile, client, parser, scanner, answered

mainVars == <<calls, budget, tickBudget, resultCache, dexCache, rcCache, dexInflight,
              rcInflight, rcLimited, lateEntry, registry, lastFull, prevFull>>
scoreVars == <<scIn, scOut, scPrev>>
compVars == <<sizes, historian, bot, profile, client, parser, scanner, answered>>
(* Each component leaves the others alone. *)
exceptSizes == <<historian, bot, profile, client, parser, scanner, answered>>
exceptHistorian == <<sizes, bot, profile, client, parser, scanner, answered>>
exceptBot == <<sizes, historian, profile, client, parser, scanner, answered>>
exceptProfile == <<sizes, historian, bot, client, parser, scanner, answered>>
exceptClient == <<sizes, historian, bot, profile, parser, scanner, answered>>
exceptParser == <<sizes, historian, bot, profile, client, scanner, answered>>
exceptScanner == <<sizes, historian, bot, profile, client, parser, answered>>
exceptAnswered == <<sizes, historian, bot, profile, client, parser, scanner>>
vars == <<mainVars, scoreVars, compVars>>

NoResult ==
  [trustScore |-> -1, verdict |-> "none", status |-> "none", reuse |-> "none",
   market |-> FALSE, rug |-> FALSE, top10 |-> 0, prevTokens |-> 0,
   known |-> FALSE, scanCount |-> 0, addr |-> "none", shot |-> FALSE]

Absent(v) == [st |-> "absent", ttl |-> 0, val |-> v]
Stale(v) == [st |-> "stale", ttl |-> 0, val |-> v]
Live(v, t) == [st |-> "live", ttl |-> t, val |-> v]

(* d ticks on an entry: Date.now() > expiresAt once the ticks left are used up. *)
aged(e, d, none) ==
  IF e.st # "live" THEN e
  ELSE IF e.ttl < d THEN Stale(none)
  ELSE [e EXCEPT !.ttl = @ - d]

(* get of a stale entry deletes it (_dexGet, _rcGet, LRUCache.get). *)
purged(e, none) == IF e.st = "stale" THEN Absent(none) ELSE e

NewCall ==
  [pc |-> "new", id |-> 0, lane |-> "none", addr |-> "none", issued |-> {}, pend |-> {},
   dexSrc |-> 0, rcSrc |-> 0, dex |-> "none", rc |-> "none", excuse |-> {},
   holders |-> "none", shot |-> "none", hist |-> "none", known |-> 0,
   ai |-> NoAI, det |-> -1, result |-> NoResult, via |-> "none", err |-> "none",
   seen |-> "none", seenKnown |-> {}]

Active(r) == r.pc \notin {"new", "done", "failed"}
Returning(r) == r.pc \in {"done", "failed"}

StartWith(invocations, steps, records) ==
  /\ calls = [c \in Calls |-> NewCall]
  /\ budget = invocations
  /\ tickBudget = steps
  /\ resultCache = [a \in Addresses |-> Absent(NoResult)]
  /\ dexCache = [k \in DedupKeys |-> Absent("none")]
  /\ rcCache = [k \in DedupKeys |-> Absent("none")]
  /\ dexInflight = [k \in DedupKeys |-> 0]
  /\ rcInflight = [k \in DedupKeys |-> 0]
  /\ rcLimited = [k \in DedupKeys |-> FALSE]
  /\ lateEntry = [k \in DedupKeys |-> {}]
  /\ registry = records
  /\ lastFull = [k \in Keys |-> Absent(NoResult)]
  /\ prevFull = [k \in Keys |-> Absent(NoResult)]

(* The process starts on an empty registry. *)
Start(invocations, steps) == StartWith(invocations, steps, [a \in Creators |-> 0])

ScorerIdle == scIn = CleanToken /\ scOut = -1 /\ scPrev = -1

(* The components studied on their own are at rest. *)
NoShown == [addr |-> "none", scan |-> 0]
ClientIdle ==
  [scan |-> 0, addr |-> "none", scanned |-> <<>>, status |-> [ch \in {"fast", "slow"} |-> "idle"],
   result |-> [ch \in {"fast", "slow"} |-> NoShown], error |-> FALSE, reqs |-> {}]
NoProfile ==
  [status |-> [creatorAddress |-> "none", creatorPercentage |-> 0, isDumped |-> FALSE,
               isWhale |-> FALSE],
   score |-> -1]
ProfileIdle ==
  [in |-> [mintAuthority |-> NULL, freezeAuthority |-> NULL, topHolders |-> <<>>,
           supply |-> 0, market |-> NoMarket],
   full |-> NoProfile, fast |-> NoProfile]
NoAnalysis == [level |-> "none", anomalies |-> <<>>]
BotIdle == [in |-> [liquidity |-> 0, marketCap |-> 0, buys24h |-> 0, sells24h |-> 0,
                    volume24h |-> 0],
            out |-> NoAnalysis]
HistorianIdle ==
  [pc |-> "idle", run |-> 0, creator |-> "", n |-> 0, i |-> 0, createdTokens |-> <<>>,
   outbound |-> 0, fetched |-> {}, sigFailed |-> FALSE, txFailed |-> FALSE]

SizesEmpty == [result |-> <<>>, dex |-> {}, rc |-> {}]
ParserIdle == [text |-> Unparseable, out |-> NoAI, done |-> FALSE]
ScannerIdle ==
  [pc |-> "idle", endpoints |-> <<>>, retryCount |-> 0, asked |-> <<>>, error |-> "none"]
ComponentsIdle ==
  /\ sizes = SizesEmpty /\ historian = HistorianIdle /\ bot = BotIdle
  /\ profile = ProfileIdle /\ client = ClientIdle
  /\ parser = ParserIdle /\ scanner = ScannerIdle /\ answered = {}

Init ==
  /\ Start(MaxInvocations, MaxTicks)
  /\ ScorerIdle
  /\ ComponentsIdle

(***************************************************************************)
(* The known-offender registry (lib/db/elephant): a lookup of a recorded   *)
(* creator counts the detection and returns the record; a flag creates the *)
(* record or counts one more detection.                                    *)
(***************************************************************************)
knownScammer_never(rec) == FALSE

knownScammer(rec) == rec > 0

checkKnownScammer_noIncrement(count) == count

checkKnownScammer(count) == IF count > 0 THEN count + 1 ELSE 0

flagScammer(count) == count + 1

(***************************************************************************)
(* fetchDexScreenerData / fetchRugCheck up to the first await: cache hit,  *)
(* join the in-flight promise, or issue a request.                         *)
(***************************************************************************)
fetchDexDecision_noInflight(entry, inflight) ==
  IF entry.st = "live" THEN "hit" ELSE "issue"

fetchDexDecision(entry, inflight) ==
  IF entry.st = "live" THEN "hit"
  ELSE IF inflight # 0 THEN "join"
  ELSE "issue"

fetchRcDecision_noCache(entry, inflight) ==
  IF inflight # 0 THEN "join" ELSE "issue"

fetchRcDecision_noInflight(entry, inflight) ==
  IF entry.st = "live" THEN "hit" ELSE "issue"

fetchRcDecision(entry, inflight) ==
  IF entry.st = "live" THEN "hit"
  ELSE IF inflight # 0 THEN "join"
  ELSE "issue"

DexOutcomes == {"data", "nopairs", "error"}
dexValue(out) == IF out = "data" THEN "data" ELSE "empty"

RcOutcomes == {"report", "notfound", "ratelimited", "error"}
rcValue(out) == IF out = "report" THEN "report" ELSE "null"
rcIsCached_always(out) == TRUE

rcIsCached(out) == out # "ratelimited"

cacheKeyOf_noTrim(a) == a

cacheKeyOf(a) == trim(a)


(***************************************************************************)
(* The evidence an invocation holds, and what is computed from it.         *)
(***************************************************************************)
marketOf(r) ==
  IF r.dex = "data"
  THEN Market(PairData(trim(r.addr)).liquidity, PairData(trim(r.addr)).marketCap)
  ELSE NoMarket

ageOf(r) == IF r.dex = "data" THEN PairData(trim(r.addr)).ageMin ELSE 0

rugOf(r) == IF r.rc = "report" THEN Rug(RugScore(trim(r.addr))) ELSE NoRug

top10Of_ignoresFailure(r) == HolderData(trim(r.addr)).top10

top10Of(r) == IF r.holders = "ok" THEN HolderData(trim(r.addr)).top10 ELSE 0

websiteOf(r) == IF r.dex = "data" THEN PairData(trim(r.addr)).website ELSE NULL

(* getHolderDistribution's list, empty when it failed (lines 530-532). *)
topHoldersOf(r) == IF r.holders = "ok" THEN HolderData(trim(r.addr)).topHolders ELSE <<>>

creatorStatusOf(r) ==
  LET info == TokenInfo(trim(r.addr))
  IN  analyzeCreator(info.mintAuthority, info.freezeAuthority, topHoldersOf(r), info.supply)

scoreInputOf(r) ==
  ScoreInput(TokenInfo(trim(r.addr)).mintAuthority, TokenInfo(trim(r.addr)).freezeAuthority,
             top10Of(r), marketOf(r), creatorStatusOf(r).isDumped,
             creatorStatusOf(r).isWhale, rugOf(r), ageOf(r))

(* analyze-fast/route.ts: the route's private copies. *)
fast_analyzeCreator(mintAuth, freezeAuth, topHolders) ==
  LET creator == creatorOf([mintAuthority |-> mintAuth, freezeAuthority |-> freezeAuth])
      creatorAddress == IF creator # NULL THEN creator ELSE "Unknown"
      pct == creatorPercentageOf(topHolders, creatorAddress)
  IN  [creatorAddress |-> creatorAddress, creatorPercentage |-> pct,
       isDumped |-> creatorAddress # "Unknown" /\ pct < 1,
       isWhale |-> pct > 20]

fast_computeDeterministicScore(in) ==
  LET s1 == 100 - authPenalty(in.mintAuth)
      s2 == s1 - authPenalty(in.freezeAuth)
      s3 == s2 - holderPenalty(in.top10)
      s4 == s3 - (IF in.isDumped THEN 15 ELSE 0)
      s5 == s4 - (IF in.isWhale THEN 10 ELSE 0)
      s6 == s5 - liquidityPenalty(in.market)
      s7 == s6 - agePenalty(in.ageMin)
      s8 == s7 - rugPenalty(in.rug)
  IN  Min(SCORE_CAP, Max(0, s8))

fastScoreInputOf(r) ==
  LET info == TokenInfo(trim(r.addr))
      cs == fast_analyzeCreator(info.mintAuthority, info.freezeAuthority, topHoldersOf(r))
  IN  ScoreInput(TokenInfo(trim(r.addr)).mintAuthority, TokenInfo(trim(r.addr)).freezeAuthority,
                 top10Of(r), marketOf(r), cs.isDumped, cs.isWhale, rugOf(r), ageOf(r))

buildKnownScammerResult_notMarked(a, count) ==
  [trustScore |-> 0, verdict |-> "Danger", status |-> "not_captured", reuse |-> "UNKNOWN",
   market |-> FALSE, rug |-> FALSE, top10 |-> 0, prevTokens |-> count,
   known |-> FALSE, scanCount |-> count, addr |-> a, shot |-> FALSE]

buildKnownScammerResult_scored(a, count) ==
  [trustScore |-> NUKE_CAP, verdict |-> "Caution", status |-> "not_captured", reuse |-> "UNKNOWN",
   market |-> FALSE, rug |-> FALSE, top10 |-> 0, prevTokens |-> count,
   known |-> TRUE, scanCount |-> count, addr |-> a, shot |-> FALSE]

buildKnownScammerResult(a, count) ==
  [trustScore |-> 0, verdict |-> "Danger", status |-> "not_captured", reuse |-> "UNKNOWN",
   market |-> FALSE, rug |-> FALSE, top10 |-> 0, prevTokens |-> count,
   known |-> TRUE, scanCount |-> count, addr |-> a, shot |-> FALSE]

buildResult_trustsText(r, j) ==
  LET det == computeTrustScore(scoreInputOf(r))
      captured == r.shot = "captured"
      final == finalScoreOf(det, j.score, captured, j.visual)
      visualTrust == j.visual # ""
  IN  [trustScore |-> final, verdict |-> verdictOf(final),
       status |-> IF visualTrust THEN "captured" ELSE "not_captured",
       reuse |-> IF visualTrust /\ reuseYes(j.visual) THEN "YES"
                 ELSE IF visualTrust /\ reuseNo(j.visual) THEN "NO" ELSE "UNKNOWN",
       market |-> r.dex = "data", rug |-> r.rc = "report", top10 |-> top10Of(r),
       prevTokens |-> IF r.hist = "ok" THEN HistoryCount(creatorStatusOf(r).creatorAddress) ELSE 0,
       known |-> FALSE, scanCount |-> 0, addr |-> r.addr, shot |-> captured]

(* investigate, lines 288-295 and 353-410.  The field shot is not part of
   the program's result: it records whether the investigation that built
   the result held a screenshot (websiteScreenshot, line 288), so that the
   fact stays known when the result comes back from the cache. *)
buildResult(r, j) ==
  LET det == computeTrustScore(scoreInputOf(r))
      captured == r.shot = "captured"
      final == finalScoreOf(det, j.score, captured, j.visual)
      visualTrust == captured /\ j.visual # ""
  IN  [trustScore |-> final, verdict |-> verdictOf(final),
       status |-> IF visualTrust THEN "captured" ELSE "not_captured",
       reuse |-> IF visualTrust /\ reuseYes(j.visual) THEN "YES"
                 ELSE IF visualTrust /\ reuseNo(j.visual) THEN "NO" ELSE "UNKNOWN",
       market |-> r.dex = "data", rug |-> r.rc = "report", top10 |-> top10Of(r),
       prevTokens |-> IF r.hist = "ok" THEN HistoryCount(creatorStatusOf(r).creatorAddress) ELSE 0,
       known |-> FALSE, scanCount |-> 0, addr |-> r.addr, shot |-> captured]

(***************************************************************************)
(* Continuations: what an invocation does, within the same turn, once the  *)
(* fan-out it awaits has settled.                                          *)
(***************************************************************************)
AIStart(r) == [r EXCEPT !.pc = "ai", !.issued = @ \cup {"ai"}]

Phase3Start(r) ==
  LET wantsShot == isRealWebsite(websiteOf(r))
      wantsHist == creatorStatusOf(r).creatorAddress # "Unknown"
      members == (IF wantsShot THEN {"shot"} ELSE {}) \cup (IF wantsHist THEN {"hist"} ELSE {})
      r1 == [r EXCEPT !.pc = "phase3", !.pend = members, !.issued = @ \cup members]
  IN  IF members = {} THEN AIStart(r1) ELSE r1

(* The fast lane as it would be if it ended in the reasoning service. *)
FastFinish_viaAI(r) == AIStart(r)

FastFinish(r) ==
  [r EXCEPT !.pc = "done", !.via = "lane",
            !.det = fast_computeDeterministicScore(fastScoreInputOf(r))]

(* The continuation as it would be under Promise.race: it runs as soon as
   one member has settled. *)
AfterSettle_firstSettles(r) ==
  IF r.lane = "fast" THEN (IF r.pend # {} THEN r ELSE FastFinish(r))
  ELSE IF r.pc = "fanout" THEN Phase3Start(r)
  ELSE AIStart(r)

AfterSettle(r) ==
  IF r.pend # {} THEN r
  ELSE IF r.lane = "fast" THEN FastFinish(r)
  ELSE IF r.pc = "fanout" THEN Phase3Start(r)
  ELSE AIStart(r)


(***************************************************************************)
(* Actions.                                                                *)
(***************************************************************************)
(* A call that has returned or thrown leaves at once: nothing else happens
   in between. *)
Running == \A d \in Calls : ~Returning(calls[d])

CanStart(c) ==
  /\ Running
  /\ budget > 0
  /\ calls[c].pc = "new"
  /\ \A d \in Calls : d < c => calls[d].pc # "new"

(* investigate, lines 107-130: cache check, validation, ledger request. *)
Investigate(c, a) ==
  /\ CanStart(c)
  /\ LET key == cacheKeyOf(a)
         e == resultCache[key]
         k == trim(a)
         base == [NewCall EXCEPT
                    !.id = budget, !.lane = "full", !.addr = a,
                    !.seen = IF k \in Keys THEN lastFull[k].st ELSE "none",
                    !.seenKnown = {x \in Creators : registry[x] > 0}]
     IN  IF e.st = "live"
         THEN /\ calls' = [calls EXCEPT ![c] =
                             [base EXCEPT !.pc = "done", !.via = "hit", !.result = e.val]]
              /\ UNCHANGED resultCache
         ELSE /\ resultCache' = [resultCache EXCEPT ![key] = purged(@, NoResult)]
              /\ calls' = [calls EXCEPT ![c] =
                             IF isValidPublicKey(a)
                             THEN [base EXCEPT !.pc = "ledger", !.issued = {"ledger"}]
                             ELSE [base EXCEPT !.pc = "failed", !.err = "invalid"]]
  /\ budget' = budget - 1
  /\ UNCHANGED <<tickBudget, dexCache, rcCache, dexInflight, rcInflight, rcLimited, lateEntry, registry, lastFull, prevFull>>
  /\ UNCHANGED <<scoreVars, compVars>>

(* analyze-fast/route.ts, lines 155-189: validation of the trimmed address, ledger request. *)
FastPost(c, a) ==
  /\ CanStart(c)
  /\ calls' = [calls EXCEPT ![c] =
                 IF isValidPublicKey(trim(a))
                 THEN [NewCall EXCEPT !.id = budget, !.lane = "fast", !.addr = a,
                                      !.pc = "ledger", !.issued = {"ledger"}]
                 ELSE [NewCall EXCEPT !.id = budget, !.lane = "fast", !.addr = a,
                                      !.pc = "failed", !.err = "invalid"]]
  /\ budget' = budget - 1
  /\ UNCHANGED <<tickBudget, resultCache, dexCache, rcCache, dexInflight, rcInflight, rcLimited, lateEntry, registry,
                 lastFull, prevFull>>
  /\ UNCHANGED <<scoreVars, compVars>>

(* The synchronous start of the fan-out: Promise.all over the collectors. *)
(* History: whether the request with this id was issued after an expiry or
   a 429 (the excuse of the invocation that issued it). *)
issuerExcuse(id) ==
  UNION {calls[i].excuse : i \in {j \in Calls : calls[j].id = id}}

FanoutStart(c, r0, extra) ==
  LET k == r0.addr
      dd == fetchDexDecision(dexCache[k], dexInflight[k])
      rd == fetchRcDecision(rcCache[k], rcInflight[k])
      r1 == [r0 EXCEPT
               !.pc = "fanout",
               !.dex = IF dd = "hit" THEN dexCache[k].val ELSE "none",
               !.dexSrc = IF dd = "issue" THEN r0.id ELSE IF dd = "join" THEN dexInflight[k] ELSE 0,
               !.rc = IF rd = "hit" THEN rcCache[k].val ELSE "none",
               !.rcSrc = IF rd = "issue" THEN r0.id ELSE IF rd = "join" THEN rcInflight[k] ELSE 0,
               !.excuse = (IF dd = "issue" /\ dexCache[k].st = "stale" THEN {"dex"} ELSE {})
                          \cup (IF rd = "issue" /\ (rcCache[k].st = "stale" \/ rcLimited[k])
                                THEN {"rc"} ELSE {})
                          \cup (IF dd = "hit" THEN lateEntry[k] \cap {"dex"} ELSE {})
                          \cup (IF rd = "hit" THEN lateEntry[k] \cap {"rc"} ELSE {})
                          \cup (IF dd = "join" THEN issuerExcuse(dexInflight[k]) \cap {"dex"} ELSE {})
                          \cup (IF rd = "join" THEN issuerExcuse(rcInflight[k]) \cap {"rc"} ELSE {}),
               !.issued = @ \cup (IF dd = "issue" THEN {"dex"} ELSE {})
                            \cup (IF rd = "issue" THEN {"rc"} ELSE {})
                            \cup {"holders"} \cup extra,
               !.pend = (IF dd = "hit" THEN {} ELSE {"dex"})
                        \cup (IF rd = "hit" THEN {} ELSE {"rc"})
                        \cup {"holders"} \cup extra]
  IN  /\ calls' = [calls EXCEPT ![c] = r1]
      /\ dexCache' = [dexCache EXCEPT ![k] = purged(@, "none")]
      /\ rcCache' = [rcCache EXCEPT ![k] = purged(@, "none")]
      /\ dexInflight' = IF dd = "issue" THEN [dexInflight EXCEPT ![k] = r0.id] ELSE dexInflight
      /\ rcInflight' = IF rd = "issue" THEN [rcInflight EXCEPT ![k] = r0.id] ELSE rcInflight

(* getTokenInfo 477-479 throws and investigate (130) lets it through. *)
tokenNotFound_swallowed(r) == [r EXCEPT !.pc = "registry", !.issued = @ \cup {"registry"}]

tokenNotFound(r) == [r EXCEPT !.pc = "failed", !.err = "notfound"]

(* getTokenInfo answers: investigate 130-140, route 189-208. *)
LedgerRespond(c) ==
  /\ Running
  /\ calls[c].pc = "ledger"
  /\ LET r == calls[c]
         creator == creatorOf(TokenInfo(trim(r.addr)))
     IN  IF ~OnLedger(trim(r.addr))
         THEN /\ calls' = [calls EXCEPT ![c] = tokenNotFound(r)]
              /\ UNCHANGED <<dexCache, rcCache, dexInflight, rcInflight>>
         ELSE IF r.lane = "fast"
         THEN FanoutStart(c, r, IF creator # NULL THEN {"registry", "hist"} ELSE {})
         ELSE IF creator # NULL
         THEN /\ calls' = [calls EXCEPT ![c] =
                             [r EXCEPT !.pc = "registry", !.issued = @ \cup {"registry"}]]
              /\ UNCHANGED <<dexCache, rcCache, dexInflight, rcInflight>>
         ELSE FanoutStart(c, r, {})
  /\ UNCHANGED <<budget, tickBudget, resultCache, rcLimited, lateEntry, registry, lastFull, prevFull>>
  /\ UNCHANGED <<scoreVars, compVars>>

(* The fast path as it would be if it stored its result in the cache. *)
RegistryRespond_caches(c) ==
  /\ Running
  /\ IF calls[c].lane = "fast"
     THEN "registry" \in calls[c].pend
     ELSE calls[c].pc = "registry"
  /\ LET r == calls[c]
         creator == creatorOf(TokenInfo(trim(r.addr)))
         rec == checkKnownScammer(registry[creator])
     IN  /\ registry' = [registry EXCEPT ![creator] = IF rec > 0 THEN rec ELSE @]
         /\ IF r.lane = "fast"
            THEN /\ calls' = [calls EXCEPT ![c] =
                                AfterSettle([r EXCEPT !.known = rec, !.pend = @ \ {"registry"}])]
                 /\ UNCHANGED <<resultCache, dexCache, rcCache, dexInflight, rcInflight>>
            ELSE IF knownScammer(rec)
            THEN /\ calls' = [calls EXCEPT ![c] =
                                [r EXCEPT !.pc = "done", !.via = "fast", !.known = rec,
                                          !.result = buildKnownScammerResult(r.addr, rec)]]
                 /\ resultCache' = [resultCache EXCEPT ![cacheKeyOf(r.addr)] =
                                      Live(buildKnownScammerResult(r.addr, rec), RESULT_TTL)]
                 /\ UNCHANGED <<dexCache, rcCache, dexInflight, rcInflight>>
            ELSE /\ FanoutStart(c, [r EXCEPT !.known = rec], {})
                 /\ UNCHANGED resultCache
         /\ answered' = IF r.lane = "full" /\ knownScammer(rec)
                         THEN answered \cup {trim(r.addr)} ELSE answered
  /\ UNCHANGED <<budget, tickBudget, rcLimited, lateEntry, lastFull, prevFull>>
  /\ UNCHANGED <<scoreVars, exceptAnswered>>

(* checkKnownScammer answers: investigate 134-140 (fast path), route 204. *)
RegistryRespond(c) ==
  /\ Running
  /\ IF calls[c].lane = "fast"
     THEN "registry" \in calls[c].pend
     ELSE calls[c].pc = "registry"
  /\ LET r == calls[c]
         creator == creatorOf(TokenInfo(trim(r.addr)))
         rec == checkKnownScammer(registry[creator])
     IN  /\ registry' = [registry EXCEPT ![creator] = IF rec > 0 THEN rec ELSE @]
         /\ IF r.lane = "fast"
            THEN /\ calls' = [calls EXCEPT ![c] =
                                AfterSettle([r EXCEPT !.known = rec, !.pend = @ \ {"registry"}])]
                 /\ UNCHANGED <<dexCache, rcCache, dexInflight, rcInflight>>
            ELSE IF knownScammer(rec)
            THEN /\ calls' = [calls EXCEPT ![c] =
                                [r EXCEPT !.pc = "done", !.via = "fast", !.known = rec,
                                          !.result = buildKnownScammerResult(r.addr, rec)]]
                 /\ UNCHANGED <<dexCache, rcCache, dexInflight, rcInflight>>
            ELSE FanoutStart(c, [r EXCEPT !.known = rec], {})
         /\ answered' = IF r.lane = "full" /\ knownScammer(rec)
                         THEN answered \cup {trim(r.addr)} ELSE answered
  /\ UNCHANGED <<budget, tickBudget, resultCache, rcLimited, lateEntry, lastFull, prevFull>>
  /\ UNCHANGED <<scoreVars, exceptAnswered>>

(* The DexScreener request of invocation i settles: dexscreener.ts 70-167. *)
DexRespond(i, out) ==
  /\ Running
  /\ calls[i].dexSrc = calls[i].id
  /\ "dex" \in calls[i].pend
  /\ LET k == calls[i].addr
     IN  /\ dexCache' = [dexCache EXCEPT ![k] = Live(dexValue(out), DEX_TTL)]
         /\ dexInflight' = [dexInflight EXCEPT ![k] = 0]
         /\ calls' = [w \in Calls |->
                        IF "dex" \in calls[w].pend /\ calls[w].dexSrc = calls[i].id
                        THEN AfterSettle([calls[w] EXCEPT !.dex = dexValue(out),
                                                          !.pend = @ \ {"dex"}])
                        ELSE calls[w]]
  /\ lateEntry' = [lateEntry EXCEPT ![calls[i].addr] = (@ \ {"dex"}) \cup (calls[i].excuse \cap {"dex"})]
  /\ UNCHANGED <<budget, tickBudget, resultCache, rcCache, rcInflight, rcLimited, registry, lastFull, prevFull>>
  /\ UNCHANGED <<scoreVars, compVars>>

(* The settlement as it would be without the finally of market.ts 270-273. *)
RcRespond_keepsEntry(i, out) ==
  /\ Running
  /\ calls[i].rcSrc = calls[i].id
  /\ "rc" \in calls[i].pend
  /\ LET k == calls[i].addr
     IN  /\ rcCache' = IF rcIsCached(out)
                       THEN [rcCache EXCEPT ![k] = Live(rcValue(out), RC_TTL)]
                       ELSE rcCache
         /\ rcInflight' = rcInflight
         /\ rcLimited' = [rcLimited EXCEPT ![k] = (out = "ratelimited")]
         /\ lateEntry' = IF rcIsCached(out)
                         THEN [lateEntry EXCEPT ![k] = (@ \ {"rc"}) \cup (calls[i].excuse \cap {"rc"})]
                         ELSE lateEntry
         /\ calls' = [w \in Calls |->
                        IF "rc" \in calls[w].pend /\ calls[w].rcSrc = calls[i].id
                        THEN AfterSettle([calls[w] EXCEPT !.rc = rcValue(out),
                                                          !.pend = @ \ {"rc"}])
                        ELSE calls[w]]
  /\ UNCHANGED <<budget, tickBudget, resultCache, dexCache, dexInflight, registry, lastFull, prevFull>>
  /\ UNCHANGED <<scoreVars, compVars>>

(* The RugCheck request of invocation i settles: market.ts 177-273. *)
RcRespond(i, out) ==
  /\ Running
  /\ calls[i].rcSrc = calls[i].id
  /\ "rc" \in calls[i].pend
  /\ LET k == calls[i].addr
     IN  /\ rcCache' = IF rcIsCached(out)
                       THEN [rcCache EXCEPT ![k] = Live(rcValue(out), RC_TTL)]
                       ELSE rcCache
         /\ rcInflight' = [rcInflight EXCEPT ![k] = 0]
         /\ rcLimited' = [rcLimited EXCEPT ![k] = (out = "ratelimited")]
         /\ lateEntry' = IF rcIsCached(out)
                         THEN [lateEntry EXCEPT ![k] = (@ \ {"rc"}) \cup (calls[i].excuse \cap {"rc"})]
                         ELSE lateEntry
         /\ calls' = [w \in Calls |->
                        IF "rc" \in calls[w].pend /\ calls[w].rcSrc = calls[i].id
                        THEN AfterSettle([calls[w] EXCEPT !.rc = rcValue(out),
                                                          !.pend = @ \ {"rc"}])
                        ELSE calls[w]]
  /\ UNCHANGED <<budget, tickBudget, resultCache, dexCache, dexInflight, registry, lastFull, prevFull>>
  /\ UNCHANGED <<scoreVars, compVars>>

(* getHolderDistribution, fetchScreenshotAsBase64 or getCreatorHistory settles;
   each degrades to its empty value on failure. *)
CollectorRespond(c, m, ok) ==
  /\ Running
  /\ m \in {"holders", "shot", "hist"}
  /\ m \in calls[c].pend
  /\ LET r == calls[c]
         r1 == CASE m = "holders" -> [r EXCEPT !.holders = IF ok THEN "ok" ELSE "fail"]
                 [] m = "shot"    -> [r EXCEPT !.shot = IF ok THEN "captured" ELSE "null"]
                 [] OTHER         -> [r EXCEPT !.hist = IF ok THEN "ok" ELSE "fail"]
     IN  calls' = [calls EXCEPT ![c] = AfterSettle([r1 EXCEPT !.pend = @ \ {m}])]
  /\ UNCHANGED <<budget, tickBudget, resultCache, dexCache, rcCache, dexInflight, rcInflight, rcLimited, lateEntry,
                 registry, lastFull, prevFull>>
  /\ UNCHANGED <<scoreVars, compVars>>

(* investigate, lines 353-415: build the result, cache it, return. *)
Finish(c, r) ==
  LET res == buildResult(r, r.ai)
      key == cacheKeyOf(r.addr)
      k == trim(r.addr)
  IN  /\ calls' = [calls EXCEPT ![c] = [r EXCEPT !.pc = "done", !.via = "full", !.result = res]]
      /\ resultCache' = [resultCache EXCEPT ![key] = Live(res, RESULT_TTL)]
      /\ lastFull' = [lastFull EXCEPT ![k] = Live(res, RESULT_TTL)]
      /\ prevFull' = [prevFull EXCEPT ![k] = IF lastFull[k].st = "live" THEN lastFull[k] ELSE @]

(* investigate 274: if (creatorAddress && finalVerdict === "Danger"). *)
shouldFlag_anyVerdict(creator, verdict) == creator # NULL

shouldFlag(creator, verdict) == creator # NULL /\ verdict = "Danger"

(* investigate 227: if (!aiResult) throw. *)
aiFailed_never(j) == FALSE

aiFailed(j) == j = NoAI

(* runUnifiedAnalysis answers: investigate 225-277. *)
AIRespond(c, j) ==
  /\ Running
  /\ calls[c].pc = "ai"
  /\ LET r == calls[c]
         creator == creatorOf(TokenInfo(trim(r.addr)))
         det == computeTrustScore(scoreInputOf(r))
         final == finalScoreOf(det, j.score, r.shot = "captured", j.visual)
     IN  IF aiFailed(j)
         THEN /\ calls' = [calls EXCEPT ![c] = [r EXCEPT !.pc = "failed", !.err = "ai"]]
              /\ UNCHANGED <<resultCache, lastFull, prevFull>>
         ELSE IF shouldFlag(creator, verdictOf(final))
         THEN /\ calls' = [calls EXCEPT ![c] =
                             [r EXCEPT !.pc = "flag", !.ai = j, !.det = det,
                                       !.issued = @ \cup {"flag"}]]
              /\ UNCHANGED <<resultCache, lastFull, prevFull>>
         ELSE Finish(c, [r EXCEPT !.ai = j, !.det = det])
  /\ UNCHANGED <<budget, tickBudget, dexCache, rcCache, dexInflight, rcInflight, rcLimited, lateEntry, registry>>
  /\ UNCHANGED <<scoreVars, compVars>>

(* flagScammer answers: investigate 274-277, then the result is built. *)
FlagRespond(c) ==
  /\ Running
  /\ calls[c].pc = "flag"
  /\ LET creator == creatorOf(TokenInfo(trim(calls[c].addr)))
     IN  registry' = [registry EXCEPT ![creator] = flagScammer(@)]
  /\ Finish(c, calls[c])
  /\ UNCHANGED <<budget, tickBudget, dexCache, rcCache, dexInflight, rcInflight, rcLimited, lateEntry>>
  /\ UNCHANGED <<scoreVars, compVars>>

(* The caller has its result or its error. *)
Return(c) ==
  /\ Returning(calls[c])
  /\ calls' = [calls EXCEPT ![c] = NewCall]
  /\ UNCHANGED <<budget, tickBudget, resultCache, dexCache, rcCache, dexInflight, rcInflight, rcLimited, lateEntry,
                 registry, lastFull, prevFull>>
  /\ UNCHANGED <<scoreVars, compVars>>

(* d ticks of 30 seconds pass. *)
Tick(d) ==
  /\ Running
  /\ tickBudget > 0
  /\ \/ \E a \in Addresses : resultCache[a].st = "live"
     \/ \E k \in DedupKeys : dexCache[k].st = "live" \/ rcCache[k].st = "live"
  /\ tickBudget' = tickBudget - 1
  /\ resultCache' = [a \in Addresses |-> aged(resultCache[a], d, NoResult)]
  /\ dexCache' = [k \in DedupKeys |-> aged(dexCache[k], d, "none")]
  /\ rcCache' = [k \in DedupKeys |-> aged(rcCache[k], d, "none")]
  /\ lastFull' = [k \in Keys |-> aged(lastFull[k], d, NoResult)]
  /\ prevFull' = [k \in Keys |-> aged(prevFull[k], d, NoResult)]
  /\ UNCHANGED <<calls, budget, dexInflight, rcInflight, rcLimited, lateEntry, registry>>
  /\ UNCHANGED <<scoreVars, compVars>>

(***************************************************************************)
(* Spec: the two lanes side by side.  Up to MaxConcurrent overlapping      *)
(* invocations, MaxInvocations in all, with time passing.  The market and  *)
(* audit services answer or fail, the reasoning service answers with one   *)
(* of OrchJudgments or fails; the best-effort collectors (holders,         *)
(* screenshot, history) answer, and answer before anything else happens.   *)
(***************************************************************************)
OrchAddresses == {"tokA", " tokA ", "tokA2"}
OrchFastAddresses == {"tokA", " tokA "}
OrchJudgments ==
  {[score |-> 10, visual |-> "", verdict |-> "Safe"],
   [score |-> 60, visual |-> "VISUAL ASSET REUSE: NO", verdict |-> "Danger"]}

Prompt == \A c \in Calls : calls[c].pend \cap {"holders", "shot", "hist"} = {}

Next ==
  \/ /\ Prompt
     /\ \/ \E c \in Calls, a \in OrchAddresses : Investigate(c, a)
        \/ \E c \in Calls, a \in OrchFastAddresses : FastPost(c, a)
        \/ \E c \in Calls : LedgerRespond(c)
        \/ \E c \in Calls : RegistryRespond(c)
        \/ \E c \in Calls, out \in {"data", "error"} : DexRespond(c, out)
        \/ \E c \in Calls, out \in {"report", "ratelimited", "error"} : RcRespond(c, out)
        \/ \E c \in Calls, j \in OrchJudgments \cup {NoAI} : AIRespond(c, j)
        \/ \E c \in Calls : FlagRespond(c)
        \/ \E c \in Calls : Return(c)
        \/ \E d \in {1, DEX_TTL + 1, RESULT_TTL + 1} : Tick(d)
  \/ \E c \in Calls, m \in {"holders", "shot", "hist"} : CollectorRespond(c, m, TRUE)

Spec == Init /\ [][Next]_vars

(***************************************************************************)
(* SpecCache: the full lane alone, CacheInvocations invocations of which   *)
(* up to MaxConcurrent overlap, with time passing up to and beyond the     *)
(* result cache's TTL.  The registry is an external store that outlives    *)
(* the process: it starts empty or with a record of three detections for   *)
(* creator A.                                                              *)
(***************************************************************************)
InitialRecords ==
  {[a \in Creators |-> 0], [a \in Creators |-> IF a = "A" THEN 3 ELSE 0]}

InitCache ==
  /\ \E records \in InitialRecords : StartWith(CacheInvocations, MaxTicks, records)
  /\ ScorerIdle
  /\ ComponentsIdle

NextCache ==
  \/ /\ Prompt
     /\ \/ \E c \in Calls, a \in OrchAddresses : Investigate(c, a)
        \/ \E c \in Calls : LedgerRespond(c)
        \/ \E c \in Calls : RegistryRespond(c)
        \/ \E c \in Calls : DexRespond(c, "data")
        \/ \E c \in Calls, out \in {"report", "ratelimited"} : RcRespond(c, out)
        \/ \E c \in Calls, j \in OrchJudgments \cup {NoAI} : AIRespond(c, j)
        \/ \E c \in Calls : FlagRespond(c)
        \/ \E c \in Calls : Return(c)
        \/ \E d \in {DEX_TTL + 1, RESULT_TTL, RESULT_TTL + 1} : Tick(d)
  \/ \E c \in Calls, m \in {"holders", "shot", "hist"} : CollectorRespond(c, m, TRUE)

SpecCache == InitCache /\ [][NextCache]_vars

(***************************************************************************)
(* SpecEvidence: EvInvocations investigations of the full lane, one at a   *)
(* time, over every address, with every collector answering or failing in  *)
(* every combination and order and every judgment of the reasoning         *)
(* service.                                                                *)
(***************************************************************************)
InitEvidence ==
  /\ Start(EvInvocations, 0)
  /\ ScorerIdle
  /\ ComponentsIdle

NextEvidence ==
  \/ \E a \in Addresses : Investigate(1, a)
  \/ LedgerRespond(1)
  \/ RegistryRespond(1)
  \/ \E out \in DexOutcomes : DexRespond(1, out)
  \/ \E out \in RcOutcomes : RcRespond(1, out)
  \/ \E m \in {"holders", "shot", "hist"}, ok \in BOOLEAN : CollectorRespond(1, m, ok)
  \/ \E j \in AIJudgments \cup {NoAI} : AIRespond(1, j)
  \/ FlagRespond(1)
  \/ Return(1)

SpecEvidence == InitEvidence /\ [][NextEvidence]_vars

(***************************************************************************)
(* SpecSize: the keys held by the three process-wide caches, over          *)
(* investigations of the subjects of Keys one after the other.  The result *)
(* cache is an LRUCache with max entries (VeritasInvestigator.ts 26-29);   *)
(* _dexCache and _rcCache are Maps (dexscreener.ts 21, market.ts 142).     *)
(* An entry is a key with a flag telling whether its TTL has passed; the   *)
(* result cache keeps its entries in order of use, the latest last.        *)
(***************************************************************************)
Entry(k, live) == [key |-> k, live |-> live]

keysOf(entries) == {e.key : e \in entries}

(* LRUCache.get: a stale entry is deleted, a live one becomes the latest. *)
lruGet(seq, k) ==
  LET others == SelectSeq(seq, LAMBDA e : e.key # k)
      mine == SelectSeq(seq, LAMBDA e : e.key = k)
  IN  IF mine # <<>> /\ mine[1].live THEN others \o mine ELSE others

lruHit(seq, k) == \E i \in 1..Len(seq) : seq[i].key = k /\ seq[i].live

(* LRUCache.set: the key becomes the latest; if the cache is full the
   least recently used entry goes. *)
lruSet(seq, k) ==
  LET others == SelectSeq(seq, LAMBDA e : e.key # k)
      room == IF Len(others) >= MaxEntries THEN Tail(others) ELSE others
  IN  Append(room, Entry(k, TRUE))

(* _dexGet/_rcGet then _dexSet/_rcSet on a miss: Map.delete of the expired
   entry of this key, Map.set of this key; no other key is touched. *)
mapFetch(entries, k, stored) ==
  IF Entry(k, TRUE) \in entries THEN entries
  ELSE IF stored THEN {e \in entries : e.key # k} \cup {Entry(k, TRUE)}
  ELSE {e \in entries : e.key # k}

(* One investigation of subject k, by its cache operations in the order of
   investigate: result cache get; on a miss the market and audit fetches;
   resultCache.set if the AI call delivered. *)
SizeInvestigate(k, rcOut, aiOk) ==
  /\ sizes' =
       IF lruHit(sizes.result, k)
       THEN [sizes EXCEPT !.result = lruGet(@, k)]
       ELSE [result |-> IF aiOk THEN lruSet(lruGet(sizes.result, k), k)
                        ELSE lruGet(sizes.result, k),
             dex |-> mapFetch(sizes.dex, k, TRUE),
             rc |-> mapFetch(sizes.rc, k, rcIsCached(rcOut))]
  /\ UNCHANGED <<mainVars, scoreVars, exceptSizes>>

(* 30 seconds pass: the dedup entries are past their expiresAt; they stay
   in their Maps. *)
SizeDedupExpire ==
  /\ sizes' = [sizes EXCEPT !.dex = {Entry(e.key, FALSE) : e \in @},
                            !.rc = {Entry(e.key, FALSE) : e \in @}]
  /\ sizes' # sizes
  /\ UNCHANGED <<mainVars, scoreVars, exceptSizes>>

(* 5 minutes pass: every entry is past its TTL. *)
SizeResultExpire ==
  /\ sizes' = [result |-> [i \in 1..Len(sizes.result) |-> Entry(sizes.result[i].key, FALSE)],
               dex |-> {Entry(e.key, FALSE) : e \in sizes.dex},
               rc |-> {Entry(e.key, FALSE) : e \in sizes.rc}]
  /\ sizes' # sizes
  /\ UNCHANGED <<mainVars, scoreVars, exceptSizes>>

InitSize ==
  /\ Start(0, 0)
  /\ ScorerIdle
  /\ ComponentsIdle

NextSize ==
  \/ \E k \in Keys, rcOut \in RcOutcomes, aiOk \in BOOLEAN : SizeInvestigate(k, rcOut, aiOk)
  \/ SizeDedupExpire
  \/ SizeResultExpire

SpecSize == InitSize /\ [][NextSize]_vars

(***************************************************************************)
(* SpecHist: getCreatorHistory on its own (lib/api/historian.ts 33-138).   *)
(* A call either returns at once or asks for the signatures of the wallet  *)
(* and then for the first SCAN_LIMIT transactions, one at a time.  Each    *)
(* request answers or throws.  A transaction is absent, foreign to the     *)
(* launch program, or one of the program's carrying the mints of           *)
(* MintLists.  fetched is history: the mints of the transactions that      *)
(* were delivered.                                                         *)
(***************************************************************************)
Mints == {"m1", "m2"}
MintLists == {<<>>, <<"m1">>, <<"m2">>, <<"m1", "m1">>, <<"m1", "m2">>, <<"m2", "m1">>}
TxOutcomes ==
  {[kind |-> "throw", mints |-> <<>>], [kind |-> "absent", mints |-> <<>>],
   [kind |-> "foreign", mints |-> <<>>]}
  \cup {[kind |-> "pumpfun", mints |-> l] : l \in MintLists}

(* The creator arguments: null, the empty string, "Unknown" in two
   spellings, a string that is no public key, and two wallets. *)
HistInputs == {NULL, "", "Unknown", " unknown ", "notakey"} \cup Creators

(* (creatorAddress || "").trim().toLowerCase(), line 37. *)
rawOf(a) ==
  CASE a = NULL -> ""
    [] a \in {"Unknown", " unknown "} -> "unknown"
    [] a = "A" -> "a"
    [] a = "B" -> "b"
    [] OTHER -> a

(* lines 38-41. *)
noCreator(a) == rawOf(a) \in {"", "unknown", "null"}

(* new PublicKey(creatorAddress), lines 44-49: the argument as given. *)
isWallet(a) == a \in Creators

(* lines 108-120: a mint is pushed unless createdTokens has it already. *)
RECURSIVE pushNew(_, _)
pushNew(created, mints) ==
  IF mints = <<>> THEN created
  ELSE pushNew(IF \E i \in 1..Len(created) : created[i] = Head(mints)
               THEN created ELSE Append(created, Head(mints)),
               Tail(mints))

(* The outer catch, lines 134-137. *)
onSigError(h) == [h EXCEPT !.pc = "done", !.createdTokens = <<>>, !.sigFailed = TRUE]

(* The loop as it would be without its increment: the same signature is
   fetched again. *)
nextTx_noIncrement(h) == h

(* The loop moves to the next signature or, past the last, returns
   createdTokens: lines 71, 132. *)
nextTx(h) ==
  IF h.i + 1 > h.n THEN [h EXCEPT !.pc = "done", !.i = 0]
  ELSE [h EXCEPT !.i = @ + 1, !.outbound = @ + 1]

(* The inner catch, lines 124-127, as it would be without it: the outer
   catch takes the error. *)
onTxError_abort(h) == [h EXCEPT !.pc = "done", !.i = 0, !.createdTokens = <<>>, !.txFailed = TRUE]

(* The inner catch, lines 124-127: the transaction is skipped. *)
onTxError(h) == nextTx([h EXCEPT !.txFailed = TRUE])

(* getCreatorHistory is called: lines 36-56. *)
HistCall(a, run) ==
  /\ historian.pc = "idle"
  /\ historian' =
       IF noCreator(a) \/ ~isWallet(a)
       THEN [HistorianIdle EXCEPT !.pc = "done", !.run = run, !.creator = a]
       ELSE [HistorianIdle EXCEPT !.pc = "sigs", !.run = run, !.creator = a, !.outbound = 1]

(* getSignaturesForAddress answers with count signatures, or throws:
   lines 54-71. *)
HistSigs(ok, count) ==
  /\ historian.pc = "sigs"
  /\ historian' =
       IF ~ok THEN onSigError(historian)
       ELSE IF count = 0 THEN [historian EXCEPT !.pc = "done"]
       ELSE [historian EXCEPT !.pc = "tx", !.n = Min(count, SCAN_LIMIT), !.i = 1,
                              !.outbound = @ + 1]

(* getParsedTransaction of signature i answers: lines 74-127. *)
HistTx(out) ==
  /\ historian.pc = "tx"
  /\ historian' =
       IF out.kind = "throw" THEN onTxError(historian)
       ELSE IF out.kind # "pumpfun" THEN nextTx(historian)
       ELSE nextTx([historian EXCEPT !.createdTokens = pushNew(@, out.mints),
                                     !.fetched = @ \cup {out.mints[j] : j \in 1..Len(out.mints)}])

(* The caller has the list. *)
HistReturn ==
  /\ historian.pc = "done"
  /\ historian' = HistorianIdle

InitHist ==
  /\ Start(0, 0)
  /\ ScorerIdle
  /\ ComponentsIdle

NextHist ==
  \/ /\ \/ \E a \in HistInputs : HistCall(a, 0)
        \/ \E ok \in BOOLEAN, count \in 0..(SCAN_LIMIT + 1) : HistSigs(ok, count)
        \/ \E out \in TxOutcomes : HistTx(out)
        \/ HistReturn
     /\ UNCHANGED <<mainVars, scoreVars, exceptHistorian>>

SpecHist == InitHist /\ [][NextHist]_vars

(***************************************************************************)
(* SpecLive: one investigation at a time, LiveInvocations in all, in which *)
(* the creator-history member of the third phase is the scan of            *)
(* getCreatorHistory itself.  Every request that has been issued is        *)
(* eventually answered: by a response, an error or a timeout (the premise  *)
(* under which termination is claimed), hence weak fairness of every       *)
(* response.  Nothing obliges a caller to start an investigation.          *)
(***************************************************************************)
(* investigate 188: the scan starts with the fan-out of the third phase. *)
HistCallFor(c) ==
  /\ "hist" \in calls[c].pend
  /\ historian.run # calls[c].id
  /\ HistCall(creatorStatusOf(calls[c]).creatorAddress, calls[c].id)

(* The promise of getCreatorHistory resolves into the Promise.all of
   investigate 181-189. *)
HistSettle(c) ==
  /\ historian.pc = "done"
  /\ historian.run = calls[c].id
  /\ CollectorRespond(c, "hist", TRUE)

(* The list has been handed over. *)
HistHandedOver ==
  /\ \A c \in Calls : "hist" \in calls[c].pend => historian.run # calls[c].id
  /\ HistReturn

(* The subjects: one whose creator is known and whose website is real, one
   without a creator, one that is no account, one that is no address.  The
   wallet has no signature, one, or more than the scan looks at; a
   transaction fetch throws, finds nothing, or delivers a launch. *)
LiveAddresses == {"tokA2", "tokN", "ghost", "bad"}
LiveTxOutcomes ==
  {[kind |-> "throw", mints |-> <<>>], [kind |-> "absent", mints |-> <<>>],
   [kind |-> "pumpfun", mints |-> <<"m1">>]}

HistStep ==
  /\ \/ HistCallFor(1)
     \/ \E ok \in BOOLEAN, count \in {0, 1, SCAN_LIMIT + 1} : HistSigs(ok, count)
     \/ \E out \in LiveTxOutcomes : HistTx(out)
     \/ HistHandedOver
  /\ UNCHANGED <<mainVars, scoreVars, exceptHistorian>>

Responses ==
  \/ LedgerRespond(1)
  \/ RegistryRespond(1)
  \/ \E out \in DexOutcomes : DexRespond(1, out)
  \/ \E out \in RcOutcomes : RcRespond(1, out)
  \/ \E m \in {"holders", "shot"}, ok \in BOOLEAN : CollectorRespond(1, m, ok)
  \/ HistSettle(1)
  \/ \E j \in OrchJudgments \cup {NoAI} : AIRespond(1, j)
  \/ FlagRespond(1)

InitLive ==
  /\ Start(LiveInvocations, 0)
  /\ ScorerIdle
  /\ ComponentsIdle

NextLive ==
  \/ \E a \in LiveAddresses : Investigate(1, a)
  \/ Responses
  \/ Return(1)
  \/ HistStep

SpecLive ==
  /\ InitLive
  /\ [][NextLive]_vars
  /\ WF_vars(Responses)
  /\ WF_vars(HistStep)

(***************************************************************************)
(* SpecBot: analyzeMarketData on its own (lib/api/market.ts 26-97).  The   *)
(* input is a pair snapshot as fetchDexScreenerData delivers it, where a   *)
(* missing fdv, liquidity or volume is 0 (dexscreener.ts 124-128).  The    *)
(* three ratios are fractions, compared with their thresholds by cross     *)
(* multiplication.                                                         *)
(***************************************************************************)
Snapshots ==
  [liquidity : {0, 9, 10, 49, 50, 1000}, marketCap : {0, 1000},
   buys24h : {0, 10, 11, 20, 21, 41}, sells24h : {0, 1, 2},
   volume24h : {0, 500, 510, 1000, 1010}]

Ratio(n, d) == [num |-> n, den |-> d]
below(r, t) == r.num < t * r.den
above(r, t) == r.num > t * r.den

(* analyzeMarketData, lines 70-72. *)
liquidityRatioOf(s) ==
  IF s.marketCap > 0 THEN Ratio(s.liquidity * 100, s.marketCap) ELSE Ratio(0, 1)
buySellRatioOf(s) ==
  IF s.sells24h > 0 THEN Ratio(s.buys24h, s.sells24h) ELSE Ratio(s.buys24h, 1)
washTradeScoreOf(s) ==
  IF s.liquidity > 0 THEN Ratio(s.volume24h, s.liquidity) ELSE Ratio(0, 1)

(* detectBotActivity, lines 58-59. *)
levelOf(riskPoints) ==
  IF riskPoints >= 5 THEN "High" ELSE IF riskPoints >= 2 THEN "Medium" ELSE "Low"

(* detectBotActivity, lines 26-62: each check adds its points and pushes
   its anomaly string, named here by its opening words. *)
detectBotActivity(liquidityRatio, buySellRatio, washTradeScore) ==
  LET liq == IF below(liquidityRatio, 1) THEN [pts |-> 3, msg |-> <<"Liquidity < 1% of market cap">>]
             ELSE IF below(liquidityRatio, 5) THEN [pts |-> 1, msg |-> <<"Low liquidity">>]
             ELSE [pts |-> 0, msg |-> <<>>]
      bs == IF above(buySellRatio, 20) THEN [pts |-> 3, msg |-> <<"Honeypot risk">>]
            ELSE IF above(buySellRatio, 10) THEN [pts |-> 2, msg |-> <<"Abnormal trading">>]
            ELSE [pts |-> 0, msg |-> <<>>]
      wash == IF above(washTradeScore, 100) THEN [pts |-> 3, msg |-> <<"Fake volume">>]
              ELSE IF above(washTradeScore, 50) THEN [pts |-> 2, msg |-> <<"Suspicious volume">>]
              ELSE [pts |-> 0, msg |-> <<>>]
  IN  [level |-> levelOf(liq.pts + bs.pts + wash.pts),
       anomalies |-> liq.msg \o bs.msg \o wash.msg]

(* analyzeMarketData, lines 74-78. *)
analyzeMarketData(s) ==
  detectBotActivity(liquidityRatioOf(s), buySellRatioOf(s), washTradeScoreOf(s))

Analyze ==
  /\ bot.out = NoAnalysis
  /\ bot' = [bot EXCEPT !.out = analyzeMarketData(bot.in)]
  /\ UNCHANGED <<mainVars, scoreVars, exceptBot>>

InitBot ==
  /\ Start(0, 0)
  /\ ScorerIdle
  /\ sizes = SizesEmpty
  /\ historian = HistorianIdle
  /\ profile = ProfileIdle
  /\ client = ClientIdle
  /\ parser = ParserIdle
  /\ scanner = ScannerIdle
  /\ answered = {}
  /\ \E s \in Snapshots : bot = [in |-> s, out |-> NoAnalysis]

NextBot == Analyze

SpecBot == InitBot /\ [][NextBot]_vars

(***************************************************************************)
(* SpecProfile: the creator profile and the deterministic score of the two *)
(* lanes on the same facts.  The facts are the authorities and the supply  *)
(* of the mint, the holder list and a market snapshot; the full lane       *)
(* applies analyzeCreator and computeTrustScore (VeritasInvestigator.ts    *)
(* 163-172), the fast lane its own _analyzeCreator and                     *)
(* _computeDeterministicScore (analyze-fast/route.ts 213-222).  A mint     *)
(* without supply has no holder.                                           *)
(***************************************************************************)
HolderLists ==
  LET first == {Holder("acct1", o, p) : o \in {"A", "other"}, p \in {0, 1, 20, 21}}
      second == {Holder("acct2", o, p) : o \in {"A", "other"}, p \in {0, 1, 20, 21}}
                \cup {Holder("A", "A", p) : p \in {0, 1, 20, 21}}
  IN  {<<>>} \cup {<<h>> : h \in first \cup second}
      \cup {<<h1, h2>> : h1 \in first, h2 \in second}

Facts ==
  {f \in [mintAuthority : {NULL, "A"}, freezeAuthority : {NULL, "A", "B"},
          topHolders : HolderLists, supply : {0, 1000},
          market : {NoMarket, Market(400, 200000)}] :
     f.supply = 0 => f.topHolders = <<>>}

(* getHolderDistribution 526: the percentages of the list, summed. *)
RECURSIVE top10PercentageOf(_)
top10PercentageOf(topHolders) ==
  IF topHolders = <<>> THEN 0
  ELSE Head(topHolders).percentage + top10PercentageOf(Tail(topHolders))

(* The part of the supply held by the accounts that wallet owns. *)
RECURSIVE holdingOf(_, _)
holdingOf(topHolders, wallet) ==
  IF topHolders = <<>> THEN 0
  ELSE (IF Head(topHolders).owner = wallet THEN Head(topHolders).percentage ELSE 0)
       + holdingOf(Tail(topHolders), wallet)

(* marketData?.ageInHours ?? 0 (investigate 241, route 221), in minutes. *)
factsAgeOf(f) == IF f.market = NoMarket THEN 0 ELSE 4320

(* investigate 163-172, 234-242. *)
fullProfileOf(f) ==
  LET cs == analyzeCreator(f.mintAuthority, f.freezeAuthority, f.topHolders, f.supply)
  IN  [status |-> cs,
       score |-> computeTrustScore(
                   ScoreInput(f.mintAuthority, f.freezeAuthority,
                              top10PercentageOf(f.topHolders), f.market,
                              cs.isDumped, cs.isWhale, NoRug, factsAgeOf(f)))]

(* analyze-fast/route.ts 213-222. *)
fastProfileOf(f) ==
  LET cs == fast_analyzeCreator(f.mintAuthority, f.freezeAuthority, f.topHolders)
  IN  [status |-> cs,
       score |-> fast_computeDeterministicScore(
                   ScoreInput(f.mintAuthority, f.freezeAuthority,
                              top10PercentageOf(f.topHolders), f.market,
                              cs.isDumped, cs.isWhale, NoRug, factsAgeOf(f)))]

ProfileFull ==
  /\ profile.full = NoProfile
  /\ profile' = [profile EXCEPT !.full = fullProfileOf(profile.in)]
  /\ UNCHANGED <<mainVars, scoreVars, exceptProfile>>

ProfileFast ==
  /\ profile.fast = NoProfile
  /\ profile' = [profile EXCEPT !.fast = fastProfileOf(profile.in)]
  /\ UNCHANGED <<mainVars, scoreVars, exceptProfile>>

InitProfile ==
  /\ Start(0, 0)
  /\ ScorerIdle
  /\ sizes = SizesEmpty
  /\ historian = HistorianIdle
  /\ bot = BotIdle
  /\ client = ClientIdle
  /\ parser = ParserIdle
  /\ scanner = ScannerIdle
  /\ answered = {}
  /\ \E f \in Facts : profile = [in |-> f, full |-> NoProfile, fast |-> NoProfile]

NextProfile == ProfileFull \/ ProfileFast

SpecProfile == InitProfile /\ [][NextProfile]_vars

(***************************************************************************)
(* SpecClient: the dual-fetch client TruthConsole                          *)
(* (components/truth/SlowVision.tsx 391-486).  A scan issues one request   *)
(* per channel; a request first awaits the response of fetch, then its     *)
(* JSON body.  Each handler call and each continuation is one step, after  *)
(* which the component has rendered.  scan is the number of scans started  *)
(* and scanned their addresses; a result on display carries, as history,   *)
(* the scan whose request set it.                                          *)
(***************************************************************************)
Channels == {"fast", "slow"}
ClientAddresses == {"tokA", "tokB"}

Request(chan, scan, addr) ==
  [chan |-> chan, scan |-> scan, addr |-> addr, stage |-> "fetch", aborted |-> FALSE]

(* handleScan 464: nothing is done while a channel is loading. *)
scanBlocked(c) == c.status["fast"] = "loading" \/ c.status["slow"] = "loading"

(* handleScan 476-481, as it would be without setFastResult(null) and
   setSlowResult(null). *)
resetOnScan_keepsResults(c) ==
  [c EXCEPT !.status = [ch \in Channels |-> "loading"], !.error = FALSE]

(* handleScan 476-481. *)
resetOnScan(c) ==
  [c EXCEPT !.result = [ch \in Channels |-> NoShown],
            !.status = [ch \in Channels |-> "loading"], !.error = FALSE]

(* The catch of _fetchFast 429-433 and of _fetchSlow 453-456. *)
onFailure(c, q) ==
  [c EXCEPT !.status[q.chan] = "error", !.error = IF q.chan = "fast" THEN TRUE ELSE @,
            !.reqs = @ \ {q}]

(* handleScan 462-486. *)
ClientScan(a) ==
  /\ ~scanBlocked(client)
  /\ client.scan < MaxScans
  /\ LET n == client.scan + 1
         c1 == resetOnScan(client)
     IN  client' = [c1 EXCEPT
                      !.scan = n, !.addr = a, !.scanned = Append(@, a),
                      !.reqs = {[q EXCEPT !.aborted = TRUE] : q \in @}
                               \cup {Request(ch, n, a) : ch \in Channels}]

(* await fetch settles, 417-423 and 441-447: an aborted request rejects with
   AbortError and returns; a network error goes to the catch. *)
ClientFetchSettle(q, ok) ==
  /\ q \in client.reqs
  /\ q.stage = "fetch"
  /\ client' =
       IF q.aborted THEN [client EXCEPT !.reqs = @ \ {q}]
       ELSE IF ~ok THEN onFailure(client, q)
       ELSE [client EXCEPT !.reqs = (@ \ {q}) \cup {[q EXCEPT !.stage = "json"]}]

(* await res.json() settles, 424-428 and 448-452. *)
ClientJsonSettle(q, success) ==
  /\ q \in client.reqs
  /\ q.stage = "json"
  /\ client' =
       IF q.aborted THEN [client EXCEPT !.reqs = @ \ {q}]
       ELSE IF ~success THEN onFailure(client, q)
       ELSE [client EXCEPT !.result[q.chan] = [addr |-> q.addr, scan |-> q.scan],
                           !.status[q.chan] = "done", !.reqs = @ \ {q}]

InitClient ==
  /\ Start(0, 0)
  /\ ScorerIdle
  /\ ComponentsIdle

NextClient ==
  /\ \/ \E a \in ClientAddresses : ClientScan(a)
     \/ \E q \in client.reqs, ok \in BOOLEAN : ClientFetchSettle(q, ok)
     \/ \E q \in client.reqs, success \in BOOLEAN : ClientJsonSettle(q, success)
  /\ UNCHANGED <<mainVars, scoreVars, exceptClient>>

SpecClient == InitClient /\ [][NextClient]_vars

(***************************************************************************)
(* SpecParse: parseUnifiedResponse on its own, applied to every response   *)
(* of ModelResponses.                                                      *)
(***************************************************************************)
Parse ==
  /\ ~parser.done
  /\ parser' = [parser EXCEPT !.out = parseUnifiedResponse(parser.text), !.done = TRUE]
  /\ UNCHANGED <<mainVars, scoreVars, exceptParser>>

InitParse ==
  /\ Start(0, 0)
  /\ ScorerIdle
  /\ sizes = SizesEmpty
  /\ historian = HistorianIdle
  /\ bot = BotIdle
  /\ profile = ProfileIdle
  /\ client = ClientIdle
  /\ scanner = ScannerIdle
  /\ answered = {}
  /\ \E text \in ModelResponses : parser = [text |-> text, out |-> NoAI, done |-> FALSE]

NextParse == Parse

SpecParse == InitParse /\ [][NextParse]_vars

(***************************************************************************)
(* SpecAnswers: MaxInvocations investigations of the full lane, one at a   *)
(* time, in which the judgment is what parseUnifiedResponse makes of the   *)
(* text of the reasoning service: a text that does not parse, or one whose *)
(* trustScore is absent, below 0 or above 100, with or without a claim of  *)
(* visual asset reuse.  Every collector answers or fails; the registry     *)
(* starts empty or with a record for creator A; time passes beyond the     *)
(* result cache's TTL.                                                     *)
(***************************************************************************)
AnswerTexts ==
  {Unparseable} \cup
  [json : {TRUE},
   trustScore : {Value("absent", 0), Value("number", -5), Value("number", 150)},
   visualAnalysis : {"", "VISUAL ASSET REUSE: YES"},
   verdict : {"Safe"}]

AIAnswer(c, text) == AIRespond(c, parseUnifiedResponse(text))

InitAnswers ==
  /\ \E records \in InitialRecords : StartWith(MaxInvocations, MaxTicks, records)
  /\ ScorerIdle
  /\ ComponentsIdle

NextAnswers ==
  \/ \E a \in Addresses : Investigate(1, a)
  \/ LedgerRespond(1)
  \/ RegistryRespond(1)
  \/ \E out \in DexOutcomes : DexRespond(1, out)
  \/ \E out \in RcOutcomes : RcRespond(1, out)
  \/ \E m \in {"holders", "shot", "hist"}, ok \in BOOLEAN : CollectorRespond(1, m, ok)
  \/ \E text \in AnswerTexts : AIAnswer(1, text)
  \/ FlagRespond(1)
  \/ Return(1)
  \/ Tick(RESULT_TTL + 1)

SpecAnswers == InitAnswers /\ [][NextAnswers]_vars

(***************************************************************************)
(* SpecRetry: getTokenMintInfo of the legacy scanner (unnamed/part_006     *)
(* 52-102) with the endpoints of lib/solana (VeritasInvestigator.ts        *)
(* 615-692).  RPC_ENDPOINTS holds the Helius endpoint, when one is         *)
(* configured, followed by two public endpoints; connection is the first   *)
(* of them and getConnection(i) the one at i modulo their number.  A       *)
(* request returns the parsed mint data or fails: with one of the          *)
(* function's own three errors, with an error of the RPC client, or with a *)
(* thrown value that is not an Error.                                      *)
(***************************************************************************)
maxRetries == 3

EndpointLists == {<<"helius", "ankr", "public">>, <<"ankr", "public">>}

getConnection(endpoints, endpointIndex) == endpoints[(endpointIndex % Len(endpoints)) + 1]

connectionFor(endpoints, retryCount) ==
  IF retryCount = 0 THEN endpoints[1] ELSE getConnection(endpoints, retryCount)

Thrown(isError, message) == [isError |-> isError, message |-> message]
NoError == Thrown(FALSE, "none")
ThrownValues ==
  {Thrown(TRUE, m) : m \in {"Token not found. This address may not exist on-chain.",
                            "Not a valid SPL Token. This may be a wallet or program address.",
                            "Unable to parse token data. This may not be a standard SPL token.",
                            "403 Forbidden", "429 Too Many Requests", "Rate limit exceeded",
                            "Access forbidden", "fetch failed"}}
    \cup {Thrown(FALSE, "429 Too Many Requests")}

(* error.message.toLowerCase() and the five includes of lines 55-59. *)
includesAny(message) ==
  message \in {"403 Forbidden", "429 Too Many Requests", "Rate limit exceeded",
               "Access forbidden"}

isRpcError(error) == error.isError /\ includesAny(error.message)

(* analyzeToken calls getTokenMintInfo(mintAddress): the first request goes
   out on connection. *)
ScanCall(endpoints) ==
  /\ scanner.pc = "idle"
  /\ scanner' = [pc |-> "wait", endpoints |-> endpoints, retryCount |-> 0,
                 asked |-> <<connectionFor(endpoints, 0)>>, error |-> NoError]
  /\ UNCHANGED <<mainVars, scoreVars, exceptScanner>>

(* getParsedAccountInfo returns a parsed SPL mint: lines 72-91. *)
ScanInfo ==
  /\ scanner.pc = "wait"
  /\ scanner' = [scanner EXCEPT !.pc = "returned"]
  /\ UNCHANGED <<mainVars, scoreVars, exceptScanner>>

(* The request or the checks of lines 74-93 throw: the catch of 94-101. *)
ScanError(error) ==
  /\ scanner.pc = "wait"
  /\ scanner' = IF isRpcError(error) /\ scanner.retryCount < maxRetries
                THEN [scanner EXCEPT !.pc = "sleep", !.error = error]
                ELSE [scanner EXCEPT !.pc = "threw", !.error = error]
  /\ UNCHANGED <<mainVars, scoreVars, exceptScanner>>

(* The timer of line 97 fires and the function calls itself with
   retryCount + 1: lines 98 and 71-72. *)
ScanRetry ==
  /\ scanner.pc = "sleep"
  /\ scanner' = [scanner EXCEPT
                   !.pc = "wait", !.retryCount = @ + 1,
                   !.asked = Append(@, connectionFor(scanner.endpoints, scanner.retryCount + 1))]
  /\ UNCHANGED <<mainVars, scoreVars, exceptScanner>>

(* The caller has the mint data or the error. *)
ScanDone ==
  /\ scanner.pc \in {"returned", "threw"}
  /\ scanner' = ScannerIdle
  /\ UNCHANGED <<mainVars, scoreVars, exceptScanner>>

InitRetry ==
  /\ Start(0, 0)
  /\ ScorerIdle
  /\ ComponentsIdle

ScanSettle == ScanInfo \/ \E error \in ThrownValues : ScanError(error)

NextRetry ==
  \/ \E endpoints \in EndpointLists : ScanCall(endpoints)
  \/ ScanInfo
  \/ \E error \in ThrownValues : ScanError(error)
  \/ ScanRetry
  \/ ScanDone

SpecRetry ==
  InitRetry /\ [][NextRetry]_vars /\ WF_vars(ScanSettle) /\ WF_vars(ScanRetry)

(***************************************************************************)
(* ScoreSpec: the deterministic scorer on its own.  The input is any of    *)
(* ScoreInputs; score applies computeTrustScore to it, raise replaces one  *)
(* field of the input so that exactly one penalty condition goes from      *)
(* false to true and every other condition stays as it was, and scores     *)
(* again.                                                                  *)
(***************************************************************************)
Conditions(in) ==
  <<in.mintAuth # NULL,
    in.freezeAuth # NULL,
    in.top10 > 30,
    in.top10 > 50,
    in.isDumped,
    in.isWhale,
    in.market.present /\ in.market.liquidity < LIQ_FLOOR,
    in.market.present /\ in.market.marketCap > 0
      /\ in.market.liquidity * 50 < in.market.marketCap,
    in.ageMin < 60,
    in.rug.present /\ in.rug.score > RUG_MED,
    in.rug.present /\ in.rug.score > RUG_HIGH>>

RaisesOne(a, b) ==
  \E i \in 1..11 :
    /\ ~Conditions(a)[i]
    /\ Conditions(b)[i]
    /\ \A j \in (1..11) \ {i} : Conditions(a)[j] = Conditions(b)[j]

Variants(in) ==
  {[in EXCEPT !.mintAuth = v] : v \in AuthValues}
    \cup {[in EXCEPT !.freezeAuth = v] : v \in AuthValues}
    \cup {[in EXCEPT !.top10 = v] : v \in Top10Values}
    \cup {[in EXCEPT !.market = v] : v \in MarketValues}
    \cup {[in EXCEPT !.isDumped = v] : v \in BOOLEAN}
    \cup {[in EXCEPT !.isWhale = v] : v \in BOOLEAN}
    \cup {[in EXCEPT !.rug = v] : v \in RugValues}
    \cup {[in EXCEPT !.ageMin = v] : v \in AgeValues}

InitScore ==
  /\ Start(0, 0)
  /\ scIn \in ScoreInputs
  /\ scOut = -1
  /\ scPrev = -1
  /\ ComponentsIdle

ScoreIt ==
  /\ scOut = -1
  /\ scOut' = computeTrustScore(scIn)
  /\ UNCHANGED <<scIn, scPrev>>
  /\ UNCHANGED <<mainVars, compVars>>

RaiseOne ==
  /\ scOut # -1
  /\ \E nxt \in Variants(scIn) :
       /\ RaisesOne(scIn, nxt)
       /\ scIn' = nxt
       /\ scPrev' = scOut
       /\ scOut' = computeTrustScore(nxt)
  /\ UNCHANGED <<mainVars, compVars>>

NextScore == ScoreIt \/ RaiseOne

ScoreSpec == InitScore /\ [][NextScore]_vars

(***************************************************************************)
(* Properties of the blend, under SpecEvidence.                            *)
(***************************************************************************)

(* C1: every result of the full pipeline has a trustScore no greater than
   the deterministic score of that investigation and no greater than the
   score of the AI judgment. *)
C1_Ceiling ==
  \A c \in Calls :
    calls[c].via = "full" =>
      /\ calls[c].result.trustScore <= calls[c].det
      /\ calls[c].result.trustScore <= calls[c].ai.score

(* The AI judged the token higher than the deterministic score and the
   result stayed at the deterministic score. *)
C1_Witness ==
  \E c \in Calls :
    /\ calls[c].via = "full"
    /\ calls[c].ai.score > calls[c].det
    /\ calls[c].det > 0
    /\ calls[c].result.trustScore = calls[c].det

(* C4: in an investigation where no screenshot was captured the final
   score is min(deterministic score, AI score), whatever the visual
   analysis text says: the template override does not fire. *)
C4_NoShotNoOverride ==
  \A c \in Calls :
    calls[c].via = "full" /\ calls[c].shot # "captured" =>
      calls[c].result.trustScore = Min(calls[c].det, calls[c].ai.score)

(* No screenshot, a judgment whose text asserts reuse, and a final score
   above the cap of the override. *)
C4_Witness ==
  \E c \in Calls :
    /\ calls[c].via = "full"
    /\ calls[c].shot # "captured"
    /\ calls[c].ai.visual = "VISUAL ASSET REUSE: YES"
    /\ calls[c].result.trustScore > 50

(***************************************************************************)
(* Properties of the result cache and the known-offender path, under       *)
(* SpecCache.                                                              *)
(***************************************************************************)

(* C2 as stated: every investigate call on a subject whose authority (mint,
   else freeze) is recorded in the registry when the call is made returns
   trustScore 0 and verdict Danger and does not invoke the AI. *)
C2_Original ==
  \A c \in Calls :
    LET info == TokenInfo(trim(calls[c].addr))
        auth == IF info.mintAuthority # NULL THEN info.mintAuthority
                ELSE info.freezeAuthority
    IN  calls[c].lane = "full" /\ auth \in calls[c].seenKnown =>
          /\ "ai" \notin calls[c].issued
          /\ calls[c].pc = "done" =>
               /\ calls[c].result.trustScore = 0
               /\ calls[c].result.verdict = "Danger"

(* C2: every investigate call that misses the result cache, on a subject
   whose authority (mint, else freeze) is recorded in the registry when the
   call is made, returns trustScore 0 and verdict Danger and does not
   invoke the AI. *)
C2_KnownOffender ==
  \A c \in Calls :
    LET info == TokenInfo(trim(calls[c].addr))
        auth == IF info.mintAuthority # NULL THEN info.mintAuthority
                ELSE info.freezeAuthority
    IN  calls[c].lane = "full" /\ calls[c].via # "hit" /\ auth \in calls[c].seenKnown =>
          /\ "ai" \notin calls[c].issued
          /\ calls[c].pc = "done" =>
               /\ calls[c].result.trustScore = 0
               /\ calls[c].result.verdict = "Danger"

(* A token whose only authority is the freeze authority, recorded by two
   earlier detections, is answered from the registry. *)
C2_Witness ==
  \E c \in Calls :
    /\ calls[c].addr = "tokA2"
    /\ calls[c].pc = "done"
    /\ calls[c].via = "fast"
    /\ "A" \in calls[c].seenKnown
    /\ calls[c].result.trustScore = 0
    /\ registry["A"] > 2

(* C7 as stated: once a full-pipeline result R has been returned for a
   subject, every investigate of that subject (up to whitespace) made
   within the TTL returns R with no outbound call, and the first one made
   after the TTL issues outbound calls. *)
C7_Original ==
  \A c \in Calls :
    LET k == trim(calls[c].addr)
    IN  calls[c].lane = "full" =>
          /\ calls[c].seen = "live" =>
               /\ calls[c].via = "hit"
               /\ calls[c].issued = {}
               /\ calls[c].result = lastFull[k].val
               /\ prevFull[k].st = "live" => calls[c].result = prevFull[k].val
          /\ calls[c].seen = "stale" => "ledger" \in calls[c].issued

(* C7: an investigate of a subject (up to whitespace) made while the
   subject's latest full-pipeline result is within its TTL returns that
   latest result with no outbound call; one made after the TTL, with a
   well-formed address, issues outbound calls again. *)
C7_RoundTrip ==
  \A c \in Calls :
    LET k == trim(calls[c].addr)
    IN  calls[c].lane = "full" =>
          /\ calls[c].seen = "live" =>
               /\ calls[c].via = "hit"
               /\ calls[c].issued = {}
               /\ calls[c].result = lastFull[k].val
          /\ calls[c].seen = "stale" /\ isValidPublicKey(calls[c].addr) =>
               "ledger" \in calls[c].issued

(* The padded address is answered from the cache after time has passed. *)
C7_Witness ==
  \E c \in Calls :
    /\ calls[c].addr = " tokA "
    /\ calls[c].via = "hit"
    /\ calls[c].result.addr = "tokA"
    /\ lastFull["tokA"].st = "live"
    /\ lastFull["tokA"].ttl < RESULT_TTL

(***************************************************************************)
(* Properties of the two lanes side by side, under Spec.                   *)
(***************************************************************************)

(* C3: when the registry lookup inside investigate returns a record, the
   call returns having issued no market, audit, holder, screenshot,
   history or AI call and without running the deterministic scorer. *)
C3_ShortCircuit ==
  \A c \in Calls :
    calls[c].lane = "full" /\ calls[c].known > 0 =>
      /\ calls[c].pc = "done"
      /\ calls[c].via = "fast"
      /\ calls[c].issued \cap {"dex", "rc", "holders", "shot", "hist", "ai", "flag"} = {}
      /\ calls[c].det = -1

(* The lookup returned a record and the call is returning. *)
C3_Witness ==
  \E c \in Calls :
    /\ calls[c].lane = "full"
    /\ calls[c].known > 0
    /\ calls[c].via = "fast"
    /\ calls[c].issued = {"ledger", "registry"}

(* C5 as stated: of two investigations of one subject in progress at the
   same time, at most one calls any given collector. *)
C5_Original ==
  \A c, d \in Calls :
    c # d /\ calls[c].pc # "new" /\ calls[d].pc # "new"
      /\ trim(calls[c].addr) = trim(calls[d].addr) =>
        \A m \in {"ledger", "dex", "rc", "holders", "shot", "hist"} :
          ~(m \in calls[c].issued /\ m \in calls[d].issued)

(* C5: of two investigations given the same address and in progress at the
   same time, at most one calls the market service, and at most one the
   audit service, unless the dedup entry had expired when the second called
   or the audit service had answered the first with a rate limit. *)
C5_DedupedCollectors ==
  \A c, d \in Calls :
    c # d /\ calls[c].pc # "new" /\ calls[d].pc # "new"
      /\ calls[c].addr = calls[d].addr =>
        \A m \in {"dex", "rc"} :
          m \in calls[c].issued /\ m \in calls[d].issued =>
            m \in calls[c].excuse \cup calls[d].excuse

(* The fast lane and the full lane on one address: one market call and one
   audit call between them, a ledger and a holders call each. *)
C5_Witness ==
  \E c, d \in Calls :
    /\ calls[c].lane = "fast" /\ calls[d].lane = "full"
    /\ calls[c].addr = calls[d].addr
    /\ {"dex", "rc"} \subseteq calls[c].issued
    /\ {"dex", "rc"} \cap calls[d].issued = {}
    /\ calls[d].dex # "none" /\ calls[d].rc # "none"
    /\ {"ledger", "holders"} \subseteq calls[c].issued \cap calls[d].issued

(* C6: per collector and key at most one request is outstanding; a caller
   that found a request outstanding issues none and gets the outcome the
   issuer gets. *)
C6_InflightDedup ==
  /\ \A k \in DedupKeys :
       /\ Cardinality({c \in Calls : /\ "dex" \in calls[c].pend
                                     /\ calls[c].dexSrc = calls[c].id
                                     /\ calls[c].addr = k}) <= 1
       /\ Cardinality({c \in Calls : /\ "rc" \in calls[c].pend
                                     /\ calls[c].rcSrc = calls[c].id
                                     /\ calls[c].addr = k}) <= 1
  /\ \A w, i \in Calls :
       w # i /\ calls[i].id # 0 =>
         /\ calls[w].dexSrc = calls[i].id =>
              "dex" \notin calls[w].issued /\ calls[w].dex = calls[i].dex
         /\ calls[w].rcSrc = calls[i].id =>
              "rc" \notin calls[w].issued /\ calls[w].rc = calls[i].rc

(* A caller of the other lane joined the outstanding market request and
   both hold its outcome. *)
C6_Witness ==
  \E w, i \in Calls :
    /\ w # i
    /\ calls[i].id # 0
    /\ calls[w].dexSrc = calls[i].id
    /\ calls[w].lane # calls[i].lane
    /\ calls[w].dex = "data"
    /\ calls[i].dex = "data"

(***************************************************************************)
(* Properties of the deterministic scorer, under ScoreSpec.                *)
(***************************************************************************)

(* C8: for every combination of inputs the deterministic scorer, and the
   fast lane's copy of it, return a value in [0, 88]. *)
C8_ScoreInRange ==
  scOut # -1 =>
    /\ scOut \in 0..88
    /\ fast_computeDeterministicScore(scIn) \in 0..88

(* Both clamps at work: a scored input whose penalties exceed 100, and so
   scores 0. *)
C8_Witness ==
  /\ scOut = 0
  /\ scIn.mintAuth # NULL /\ scIn.freezeAuth # NULL
  /\ scIn.isDumped /\ scIn.isWhale /\ scIn.top10 > 50

(* C9: when one penalty condition goes from false to true and every other
   condition is unchanged, the score does not increase. *)
C9_Monotone == scPrev # -1 => scOut <= scPrev

(* The top-10 share went from above 30% to above 50% and the score fell by
   the difference of the two tiers. *)
C9_Witness ==
  /\ scPrev # -1
  /\ scIn.top10 > 50
  /\ scOut = scPrev - 5

(* C10: the score is min(88, max(0, 100 - P)), P the sum of the triggered
   penalties; the clean-token scenario scores 88 and the rug-pattern
   scenario scores 0. *)
C10_ScoreFormula ==
  scOut # -1 =>
    LET in == scIn
        P == (IF in.mintAuth # NULL THEN 40 ELSE 0)
             + (IF in.freezeAuth # NULL THEN 40 ELSE 0)
             + (IF in.top10 > 50 THEN 15 ELSE IF in.top10 > 30 THEN 10 ELSE 0)
             + (IF in.isDumped THEN 15 ELSE 0)
             + (IF in.isWhale THEN 10 ELSE 0)
             + (IF in.market.present
                THEN IF in.market.liquidity < 5000 THEN 20
                     ELSE IF in.market.marketCap > 0
                             /\ in.market.liquidity * 100 < 2 * in.market.marketCap
                          THEN 15 ELSE 0
                ELSE 0)
             + (IF in.ageMin < 60 THEN 10 ELSE 0)
             + (IF in.rug.present
                THEN IF in.rug.score > 500 THEN 20
                     ELSE IF in.rug.score > 200 THEN 10 ELSE 0
                ELSE 0)
    IN  /\ scOut = Min(88, Max(0, 100 - P))
        /\ in = CleanToken => scOut = 88
        /\ (\E w \in BOOLEAN, r \in RugValues, a \in AgeValues : in = RugPattern(w, r, a))
             => scOut = 0

(* The rug-pattern scenario has been scored. *)
C10_Witness ==
  /\ scOut = 0
  /\ scIn = RugPattern(FALSE, NoRug, 4320)

(* C11: the final score of a full-pipeline result is
   min(deterministic, AI, 50) exactly when a screenshot was captured, the
   visual analysis text asserts reuse YES and the text carries no
   meme-culture keyword; in every other case it is min(deterministic, AI). *)
C11_OverrideExactly ==
  \A c \in Calls :
    calls[c].via = "full" =>
      LET text == calls[c].ai.visual
          fires == /\ calls[c].shot = "captured"
                   /\ text \in {"VISUAL ASSET REUSE: YES", "VISUAL ASSET REUSE: YES pepe"}
                   /\ text # "VISUAL ASSET REUSE: YES pepe"
          blend == Min(calls[c].det, calls[c].ai.score)
      IN  calls[c].result.trustScore = IF fires THEN Min(blend, 50) ELSE blend

(* The override acted: screenshot captured, reuse asserted, no meme
   keyword, a blend above 50 and a final score of 50. *)
C11_Witness ==
  \E c \in Calls :
    /\ calls[c].via = "full"
    /\ calls[c].shot = "captured"
    /\ calls[c].ai.visual = "VISUAL ASSET REUSE: YES"
    /\ Min(calls[c].det, calls[c].ai.score) > 50
    /\ calls[c].result.trustScore = 50

(***************************************************************************)
(* Properties of the results returned, under SpecCache (C12, C18-C20)      *)
(* and SpecEvidence (C13-C17).                                             *)
(***************************************************************************)

(* C12: in every result investigate returns, from the full pipeline, the
   fast path or the result cache, the verdict is the tier of the score:
   Safe iff score >= 70, Caution iff 40 <= score < 70, Danger iff
   score < 40, whatever verdict string the AI judgment carried. *)
C12_VerdictFromScore ==
  \A c \in Calls :
    calls[c].lane = "full" /\ calls[c].pc = "done" =>
      LET res == calls[c].result
      IN  /\ res.verdict \in {"Safe", "Caution", "Danger"}
          /\ res.verdict = "Safe" <=> res.trustScore >= 70
          /\ res.verdict = "Caution" <=> (res.trustScore >= 40 /\ res.trustScore < 70)
          /\ res.verdict = "Danger" <=> res.trustScore < 40

(* A full-pipeline result in the Caution tier although the AI judgment
   carried the verdict string Danger. *)
C12_Witness ==
  \E c \in Calls :
    /\ calls[c].via = "full"
    /\ calls[c].pc = "done"
    /\ calls[c].ai.verdict = "Danger"
    /\ calls[c].result.verdict = "Caution"
    /\ calls[c].result.trustScore \in 40..69

(* C13: when the reasoning call has settled without a judgment (error,
   service unavailable, unparsable output) the invocation has failed with
   the AI error: it holds no result, nothing was written to the result
   cache under its key and no registry write was issued or made: the
   authority of the token has no record. *)
C13_AIFailureAborts ==
  \A c \in Calls :
    "ai" \in calls[c].issued /\ calls[c].pc # "ai" /\ calls[c].ai = NoAI =>
      /\ calls[c].pc = "failed"
      /\ calls[c].err = "ai"
      /\ calls[c].result = NoResult
      /\ "flag" \notin calls[c].issued
      /\ resultCache[trim(calls[c].addr)].st = "absent"
      /\ LET info == TokenInfo(trim(calls[c].addr))
         IN  /\ info.mintAuthority # NULL => registry[info.mintAuthority] = 0
             /\ info.mintAuthority = NULL /\ info.freezeAuthority # NULL =>
                  registry[info.freezeAuthority] = 0

(* The reasoning call failed after every collector had delivered for a
   token with an authority: the invocation is failing with the AI error. *)
C13_Witness ==
  \E c \in Calls :
    /\ calls[c].err = "ai"
    /\ calls[c].pc = "failed"
    /\ calls[c].addr = "tokA"
    /\ calls[c].dex = "data"
    /\ calls[c].rc = "report"
    /\ calls[c].holders = "ok"

(* C14: when the on-chain facts fetch has failed (the address is well
   formed but has no token account on the ledger) the invocation has
   failed with the not-found error having issued the ledger call and
   nothing else: no registry lookup, no market, audit, holder, screenshot,
   history or AI call, no registry write, and the result cache holds
   nothing under its key. *)
C14_LedgerFailureAborts ==
  \A c \in Calls :
    calls[c].lane = "full" /\ calls[c].addr = "ghost" /\ calls[c].pc \notin {"new", "ledger"} =>
      /\ calls[c].pc = "failed"
      /\ calls[c].err = "notfound"
      /\ calls[c].issued = {"ledger"}
      /\ calls[c].result = NoResult
      /\ resultCache["ghost"].st = "absent"

(* The ledger answered that the address has no account. *)
C14_Witness ==
  \E c \in Calls :
    /\ calls[c].addr = "ghost"
    /\ calls[c].pc = "failed"
    /\ calls[c].err = "notfound"
    /\ calls[c].issued = {"ledger"}

(* C15: once the ledger has answered, an investigation fails only through
   the reasoning call: whichever of market, audit, holders, screenshot and
   history failed, the call that got its AI judgment returns a
   full-pipeline result, in which each collector that failed shows as
   absent: market null, rugCheck null, top-10 concentration 0, visual
   evidence not_captured, previousTokens 0. *)
C15_DegradedCollectors ==
  \A c \in Calls :
    LET r == calls[c] IN
    /\ r.lane = "full" /\ r.pc = "failed" /\ r.issued # {} /\ r.issued # {"ledger"}
         => r.err = "ai"
    /\ r.lane = "full" /\ r.pc \in {"fanout", "phase3"} => r.pend # {}
    /\ r.lane = "full" /\ r.ai # NoAI /\ r.pc = "done" =>
         /\ r.via = "full"
         /\ r.result # NoResult
         /\ r.dex # "data" => r.result.market = FALSE
         /\ r.rc # "report" => r.result.rug = FALSE
         /\ r.holders # "ok" => r.result.top10 = 0
         /\ r.shot # "captured" => r.result.status = "not_captured"
         /\ r.hist # "ok" => r.result.prevTokens = 0

(* A result returned although market, audit, holders and history all
   failed. *)
C15_Witness ==
  \E c \in Calls :
    /\ calls[c].via = "full"
    /\ calls[c].dex = "empty"
    /\ calls[c].rc = "null"
    /\ calls[c].holders = "fail"
    /\ calls[c].hist = "fail"
    /\ calls[c].result.trustScore >= 0
    /\ calls[c].result.market = FALSE
    /\ calls[c].result.top10 = 0

(* C16: an invocation given an identifier that fails format validation
   (here the whitespace-padded " tokA " and the malformed "bad"), in
   whatever state the caches are, fails with the invalid-format error
   having issued no external call, and holds no result. *)
C16_Original ==
  \A c \in Calls :
    calls[c].lane = "full" /\ calls[c].addr \in {" tokA ", "bad"} =>
      /\ calls[c].pc = "failed"
      /\ calls[c].err = "invalid"
      /\ calls[c].issued = {}
      /\ calls[c].result = NoResult

(* The padded identifier, which the validator rejects, is answered with
   the result cached for the token it trims to. *)
C16_Witness ==
  \E c \in Calls :
    /\ calls[c].addr = " tokA "
    /\ calls[c].via = "hit"
    /\ calls[c].pc = "done"
    /\ calls[c].result.addr = "tokA"
    /\ calls[c].result.trustScore >= 0

(* The phases of investigate (lines 107-416) in the order of the code. *)
phaseRank(pc) ==
  CASE pc = "new" -> 0 [] pc = "ledger" -> 1 [] pc = "registry" -> 2
    [] pc = "fanout" -> 3 [] pc = "phase3" -> 4 [] pc = "ai" -> 5
    [] pc = "flag" -> 6 [] OTHER -> 7

(* C17: an invocation of investigate moves through its phases in order and
   never back: cache check and validation, on-chain facts, registry
   lookup, fan-out {market, audit, holders}, creator profile, fan-out
   {screenshot, history}, AI, blend, registry write-back, cache population,
   return.  No call of a later phase is issued before every member of the
   fan-out before it has settled, and a member that failed leaves its
   siblings to settle. *)
C17_PhaseOrder ==
  /\ [](\A c \in Calls :
          LET r == calls[c]
              later == {"shot", "hist", "ai", "flag"}
          IN  r.lane = "full" =>
                /\ r.pc = "ledger" => r.issued = {"ledger"}
                /\ r.pc = "registry" => r.issued = {"ledger", "registry"}
                /\ r.issued # {} => "ledger" \in r.issued
                /\ r.pc = "fanout" => "holders" \in r.issued /\ r.issued \cap later = {}
                /\ r.pc = "phase3" => r.issued \cap {"ai", "flag"} = {}
                /\ r.pc = "ai" => "flag" \notin r.issued
                /\ r.issued \cap later # {} =>
                     r.dex # "none" /\ r.rc # "none" /\ r.holders # "none"
                /\ "ai" \in r.issued =>
                     /\ r.pend = {}
                     /\ "shot" \in r.issued => r.shot # "none"
                     /\ "hist" \in r.issued => r.hist # "none"
                /\ "flag" \in r.issued => r.ai # NoAI /\ r.det >= 0
                /\ r.via = "full" =>
                     /\ "ai" \in r.issued /\ r.ai # NoAI
                     /\ resultCache[trim(r.addr)] = Live(r.result, RESULT_TTL)
                /\ r.pc \notin {"new", "done"} => resultCache[trim(r.addr)].st # "live")
  /\ [][\A c \in Calls :
          calls[c].lane = "full" /\ calls'[c].pc # "new" =>
            phaseRank(calls'[c].pc) >= phaseRank(calls[c].pc)]_vars

(* The holder collector has failed while the market and audit calls of
   the same fan-out are still awaited. *)
C17_Witness ==
  \E c \in Calls :
    /\ calls[c].lane = "full"
    /\ calls[c].pc = "fanout"
    /\ calls[c].holders = "fail"
    /\ {"dex", "rc"} \subseteq calls[c].pend

(* C18: flagScammer is issued by an invocation only if it ran the full
   pipeline and its final verdict is Danger: a call that has issued the
   write missed the cache, was not short-circuited, holds an AI judgment
   and a blended score below 40, and returns a full-pipeline Danger
   result; a call that ended in a cache hit, the fast path, an error or a
   Safe or Caution verdict has not issued it. *)
C18_FlagOnlyOnDanger ==
  \A c \in Calls :
    LET r == calls[c] IN
    /\ "flag" \in r.issued =>
         /\ r.lane = "full"
         /\ r.pc \in {"flag", "done"}
         /\ r.known = 0
         /\ r.ai # NoAI
         /\ Min(r.det, r.ai.score) < 40
         /\ r.pc = "done" => r.via = "full" /\ r.result.verdict = "Danger"
    /\ r.lane = "full" /\ r.pc \in {"done", "failed"}
         /\ (r.via \in {"hit", "fast"} \/ r.pc = "failed"
             \/ r.result.verdict \in {"Safe", "Caution"})
         => "flag" \notin r.issued

(* A full-pipeline call whose final verdict is Danger has issued the
   registry write, and the record of the token's authority exists. *)
C18_Witness ==
  \E c \in Calls :
    /\ calls[c].via = "full"
    /\ calls[c].pc = "done"
    /\ "flag" \in calls[c].issued
    /\ calls[c].result.verdict = "Danger"
    /\ calls[c].addr = "tokA"
    /\ registry["A"] > 0

(* C19 as stated: once an investigation of a token with authority A has
   concluded Danger and its registry write has completed, every later
   investigate call on another token whose authority is A returns the
   known-offender result (score 0, Danger, isKnownScammer true) through
   the fast path. *)
C19_Original ==
  \A c \in Calls :
    LET k == trim(calls[c].addr)
        auth(t) == IF TokenInfo(t).mintAuthority # NULL THEN TokenInfo(t).mintAuthority
                   ELSE TokenInfo(t).freezeAuthority
    IN  /\ calls[c].lane = "full"
        /\ auth(k) \in calls[c].seenKnown
        /\ \E t \in Keys \ {k} :
             /\ auth(t) = auth(k)
             /\ lastFull[t].st # "absent"
             /\ lastFull[t].val.verdict = "Danger"
        /\ calls[c].pc = "done"
        => /\ calls[c].via = "fast"
           /\ calls[c].result.trustScore = 0
           /\ calls[c].result.verdict = "Danger"
           /\ calls[c].result.known

(* C19: every investigate call that misses the result cache, made when
   the registry holds a record of the token's authority (as it does once an
   investigation of another token of that authority has concluded Danger
   and its write has completed), returns the known-offender result (score
   0, Danger, isKnownScammer true) through the fast path. *)
C19_BlockedAfterFlag ==
  \A c \in Calls :
    LET k == trim(calls[c].addr)
        auth == IF TokenInfo(k).mintAuthority # NULL THEN TokenInfo(k).mintAuthority
                ELSE TokenInfo(k).freezeAuthority
    IN  /\ calls[c].lane = "full"
        /\ calls[c].via # "hit"
        /\ auth \in calls[c].seenKnown
        /\ calls[c].pc = "done"
        => /\ calls[c].via = "fast"
           /\ calls[c].result.trustScore = 0
           /\ calls[c].result.verdict = "Danger"
           /\ calls[c].result.known

(* tokA was found Danger and its authority A recorded; a later call on
   tokA2, whose freeze authority is A, is answered by the fast path. *)
C19_Witness ==
  \E c \in Calls :
    /\ calls[c].addr = "tokA2"
    /\ calls[c].via = "fast"
    /\ calls[c].result.known
    /\ calls[c].result.trustScore = 0
    /\ "A" \in calls[c].seenKnown
    /\ lastFull["tokA"].st # "absent"
    /\ lastFull["tokA"].val.verdict = "Danger"

(* C20: known-offender replay: when the registry lookup of an invocation
   finds a record with detection count n for the token's creator, the
   invocation returns a result with score 0 that reports detection count
   n + 1 (count 3 gives 4). *)
C20_ReplayCount ==
  [][\A c \in Calls :
       LET k == trim(calls[c].addr)
           auth == IF TokenInfo(k).mintAuthority # NULL THEN TokenInfo(k).mintAuthority
                   ELSE TokenInfo(k).freezeAuthority
       IN  /\ calls[c].lane = "full"
           /\ calls[c].pc = "registry"
           /\ calls'[c].pc # "registry"
           /\ registry[auth] > 0
           => /\ calls'[c].pc = "done"
              /\ calls'[c].result.trustScore = 0
              /\ calls'[c].result.scanCount = registry[auth] + 1
              /\ calls'[c].result.prevTokens = registry[auth] + 1]_vars

(* A new token of a creator recorded with three detections is answered
   with score 0 and detection count 4. *)
C20_Witness ==
  \E c \in Calls :
    /\ calls[c].addr = "tokA2"
    /\ calls[c].via = "fast"
    /\ calls[c].result.trustScore = 0
    /\ calls[c].result.scanCount = 4
    /\ lastFull["tokA"].st = "absent"
    /\ lastFull["tokA2"].st = "absent"

(***************************************************************************)
(* Properties of the dedup caches and of the two lanes, under Spec.        *)
(***************************************************************************)

(* C21: audit cache update rule.  When an audit request settles with a
   429 the cache entry of its key is left as it was, which is not live, so
   a fan-out that asks once it has settled issues a request of its own;
   when it settles with any other outcome the outcome is cached for 30
   seconds, and a fan-out that finds a live entry takes its value and
   issues no audit request. *)
C21_AuditCacheRule ==
  [][/\ \A k \in DedupKeys :
          rcInflight[k] # 0 /\ rcInflight'[k] = 0 =>
            IF rcLimited'[k]
            THEN rcCache'[k] = rcCache[k] /\ rcCache'[k].st # "live"
            ELSE rcCache'[k].st = "live" /\ rcCache'[k].ttl = RC_TTL
      /\ \A c \in Calls :
           calls[c].pc # "fanout" /\ calls'[c].pc = "fanout" =>
             LET q == calls'[c].addr
             IN  /\ rcLimited[q] /\ rcInflight[q] = 0 =>
                      /\ "rc" \in calls'[c].issued
                      /\ calls'[c].rcSrc = calls'[c].id
                 /\ rcCache[q].st = "live" =>
                      /\ "rc" \notin calls'[c].issued
                      /\ "rc" \notin calls'[c].pend
                      /\ calls'[c].rc = rcCache[q].val]_vars

(* The audit service answered 429 and, with no time passed, the next
   fan-out for the same address has its own audit request in flight. *)
C21_Witness ==
  \E c \in Calls :
    /\ calls[c].pc = "fanout"
    /\ "rc" \in calls[c].issued
    /\ calls[c].rcSrc = calls[c].id
    /\ rcLimited[calls[c].addr]
    /\ rcInflight[calls[c].addr] = calls[c].id
    /\ rcCache[calls[c].addr].st = "absent"
    /\ tickBudget = MaxTicks

(* C22 as stated: two investigations of one subject in progress at the
   same time that have both received their market snapshot and audit
   report hold the same snapshot and the same report. *)
C22_Original ==
  \A c, d \in Calls :
    /\ c # d /\ calls[c].pc # "new" /\ calls[d].pc # "new"
    /\ trim(calls[c].addr) = trim(calls[d].addr)
    /\ calls[c].dex # "none" /\ calls[d].dex # "none"
    /\ calls[c].rc # "none" /\ calls[d].rc # "none"
    => calls[c].dex = calls[d].dex /\ calls[c].rc = calls[d].rc

(* C22: two investigations given the same address string and in progress
   at the same time hold the same market snapshot, and the same audit
   report, unless one of the two values came from a request issued after
   the 30-second entry of an earlier one had expired or, for the audit,
   after a 429. *)
C22_SharedEvidence ==
  \A c, d \in Calls :
    c # d /\ calls[c].pc # "new" /\ calls[d].pc # "new"
      /\ calls[c].addr = calls[d].addr =>
        /\ calls[c].dex # "none" /\ calls[d].dex # "none"
             /\ "dex" \notin calls[c].excuse \cup calls[d].excuse
             => calls[c].dex = calls[d].dex
        /\ calls[c].rc # "none" /\ calls[d].rc # "none"
             /\ "rc" \notin calls[c].excuse \cup calls[d].excuse
             => calls[c].rc = calls[d].rc

(* The fast lane and the full lane on one address, both holding the
   failed market snapshot and the failed audit of one request each. *)
C22_Witness ==
  \E c, d \in Calls :
    /\ calls[c].lane = "fast" /\ calls[d].lane = "full"
    /\ calls[c].addr = calls[d].addr
    /\ calls[c].excuse = {} /\ calls[d].excuse = {}
    /\ calls[c].dex = "empty" /\ calls[d].dex = "empty"
    /\ calls[c].rc = "null" /\ calls[d].rc = "null"
    /\ Cardinality({x \in {c, d} : "dex" \in calls[x].issued}) = 1
    /\ Cardinality({x \in {c, d} : "rc" \in calls[x].issued}) = 1

(***************************************************************************)
(* Property of the cache sizes, under SpecSize.                            *)
(***************************************************************************)

(* C23: after any sequence of investigations over any number of distinct
   subjects each of the three process-wide caches (the result cache, the
   market dedup cache, the audit dedup cache) holds at most the fixed
   maximum number of entries. *)
C23_Original ==
  /\ Len(sizes.result) <= MaxEntries
  /\ Cardinality(sizes.dex) <= MaxEntries
  /\ Cardinality(sizes.rc) <= MaxEntries

(* The result cache is at its maximum, having dropped one of the three
   subjects, while the market dedup Map holds an entry for each of the
   three, expired entries included. *)
C23_Witness ==
  /\ Len(sizes.result) = MaxEntries
  /\ keysOf(sizes.dex) = Keys
  /\ \E e \in sizes.dex : ~e.live

(***************************************************************************)
(* Property of getCreatorHistory, under SpecHist.                          *)
(***************************************************************************)
(* C29: getCreatorHistory never raises.  When it has returned: for an
   absent, unknown or invalid creator the list is empty and no request was
   made; after a failure of the signature fetch the list is empty;
   otherwise the list holds exactly the mints of the transactions that were
   delivered, whatever number of transaction fetches failed; and no mint
   occurs twice in the list. *)
C29_NeverRaises ==
  /\ historian.pc \in {"idle", "sigs", "tx", "done"}
  /\ historian.pc = "done" =>
       LET list == historian.createdTokens
       IN  /\ (noCreator(historian.creator) \/ ~isWallet(historian.creator))
                => list = <<>> /\ historian.outbound = 0
           /\ historian.sigFailed => list = <<>>
           /\ {list[j] : j \in 1..Len(list)} = historian.fetched
           /\ \A j1, j2 \in 1..Len(list) : list[j1] = list[j2] => j1 = j2

(* A scan of SCAN_LIMIT transactions has returned two mints although a
   transaction fetch failed. *)
C29_Witness ==
  /\ historian.pc = "done"
  /\ historian.txFailed
  /\ historian.createdTokens \in {<<"m1", "m2">>, <<"m2", "m1">>}
  /\ historian.n = SCAN_LIMIT

(***************************************************************************)
(* Property of termination, under SpecLive.                                *)
(***************************************************************************)
(* C24: every investigation that has started eventually has its result or
   its first fatal error, provided every request is eventually answered;
   a scan of the creator's history that has started eventually returns, and
   it never makes more than one signature request and SCAN_LIMIT transaction
   requests. *)
C24_Terminates ==
  /\ [](historian.outbound <= SCAN_LIMIT + 1)
  /\ Active(calls[1]) ~> Returning(calls[1])
  /\ (historian.pc \in {"sigs", "tx"}) ~> (historian.pc = "done")

(* An investigation has its result after a third phase in which the scan
   went through SCAN_LIMIT transactions, one of them failing. *)
C24_Witness ==
  /\ calls[1].pc = "done"
  /\ calls[1].via = "full"
  /\ historian.run = calls[1].id
  /\ historian.n = SCAN_LIMIT
  /\ historian.txFailed
  /\ historian.outbound = SCAN_LIMIT + 1

(***************************************************************************)
(* Property of the bot-activity classification, under SpecBot.             *)
(***************************************************************************)
(* C27: the risk points of a snapshot are 3 if its liquidity is under 1% of
   its market cap, else 1 if under 5%; plus 3 if its buy/sell ratio is
   over 20, else 2 if over 10; plus 3 if its volume/liquidity is over 100,
   else 2 if over 50.  The level is High iff the points are 5 or more,
   Medium iff they are 2 to 4, Low otherwise, and there is one anomaly
   string per check that added points. *)
C27_Original ==
  bot.out # NoAnalysis =>
    LET s == bot.in
        liq == IF s.liquidity * 100 < s.marketCap THEN 3
               ELSE IF s.liquidity * 100 < 5 * s.marketCap THEN 1 ELSE 0
        bs == IF above(buySellRatioOf(s), 20) THEN 3
              ELSE IF above(buySellRatioOf(s), 10) THEN 2 ELSE 0
        wash == IF above(washTradeScoreOf(s), 100) THEN 3
                ELSE IF above(washTradeScoreOf(s), 50) THEN 2 ELSE 0
        points == liq + bs + wash
        triggered == {c \in {liq, bs + 10, wash + 20} : c \notin {0, 10, 20}}
    IN  /\ bot.out.level = "High" <=> points >= 5
        /\ bot.out.level = "Medium" <=> (2 <= points /\ points < 5)
        /\ bot.out.level = "Low" <=> points < 2
        /\ Len(bot.out.anomalies) = Cardinality(triggered)

(* A snapshot without market cap and with a liquidity of 1000, 11 buys for
   one sell and no volume is classified High, with the anomaly of a
   liquidity under 1% of the market cap. *)
C27_Witness ==
  /\ bot.in = [liquidity |-> 1000, marketCap |-> 0, buys24h |-> 11, sells24h |-> 1,
               volume24h |-> 0]
  /\ bot.out = [level |-> "High",
                anomalies |-> <<"Liquidity < 1% of market cap", "Abnormal trading">>]

(***************************************************************************)
(* Properties of the creator profile and of the two lanes' scores, under   *)
(* SpecProfile.                                                            *)
(***************************************************************************)
(* C26: on the same authorities, supply, holder list and market snapshot,
   the deterministic score of the fast lane equals the deterministic score
   of the full lane. *)
C26_Original ==
  (profile.full # NoProfile /\ profile.fast # NoProfile)
    => profile.fast.score = profile.full.score

(* A mint with a mint authority and no supply yet: the full lane scores it
   50, the fast lane, which takes its creator as having dumped, 35. *)
C26_Witness ==
  /\ profile.in = [mintAuthority |-> "A", freezeAuthority |-> NULL, topHolders |-> <<>>,
                   supply |-> 0, market |-> NoMarket]
  /\ ~profile.full.status.isDumped
  /\ profile.fast.status.isDumped
  /\ profile.full.score = 50
  /\ profile.fast.score = 35

(* C28: for a token that has a creator and a supply, the profile says
   dumped exactly when the accounts of the creator hold less than 1% of the
   supply, and whale exactly when they hold more than 20% of it. *)
C28_Original ==
  (profile.full # NoProfile /\ profile.full.status.creatorAddress # "Unknown"
     /\ profile.in.supply > 0)
    => LET holding == holdingOf(profile.in.topHolders, profile.full.status.creatorAddress)
       IN  /\ profile.full.status.isDumped <=> holding < 1
           /\ profile.full.status.isWhale <=> holding > 20

(* The creator's account holds 21% of the supply; the profile says dumped
   and not whale, with a creator percentage of 0. *)
C28_Witness ==
  /\ profile.in.mintAuthority = "A"
  /\ profile.in.supply > 0
  /\ profile.in.topHolders = <<Holder("acct1", "A", 21)>>
  /\ profile.full.status = [creatorAddress |-> "A", creatorPercentage |-> 0,
                            isDumped |-> TRUE, isWhale |-> FALSE]

(***************************************************************************)
(* Property of the fast lane, under Spec.                                  *)
(***************************************************************************)
(* C25: a request of the fast lane never calls the reasoning service, the
   screenshot service or the flagging of the registry: the only requests it
   issues are those of the ledger, the market, the audit, the holders, the
   registry lookup and the creator history.  It holds no judgment, no
   screenshot and no result of the full lane, and what it returns is the
   deterministic score of its own facts. *)
C25_FastLaneFactsOnly ==
  \A c \in Calls :
    calls[c].lane = "fast" =>
      /\ calls[c].issued \subseteq {"ledger", "dex", "rc", "holders", "registry", "hist"}
      /\ calls[c].pc \in {"ledger", "fanout", "done", "failed"}
      /\ calls[c].ai = NoAI
      /\ calls[c].shot = "none"
      /\ calls[c].result = NoResult
      /\ calls[c].pc = "done" =>
           /\ calls[c].via = "lane"
           /\ calls[c].det = fast_computeDeterministicScore(fastScoreInputOf(calls[c]))

(* A request of the fast lane has returned its score after the registry
   lookup and the creator history, while an investigation of the same
   subject waits for the reasoning service. *)
C25_Witness ==
  \E c, d \in Calls :
    /\ calls[c].lane = "fast"
    /\ calls[c].pc = "done"
    /\ calls[c].det >= 0
    /\ {"registry", "hist"} \subseteq calls[c].issued
    /\ calls[d].lane = "full"
    /\ calls[d].pc = "ai"

(***************************************************************************)
(* Property of the dual-fetch client, under SpecClient.                    *)
(***************************************************************************)
(* C30: the fast and the slow result on display are results of the latest
   scan, for its address; and a request of an earlier scan, when it
   settles, changes neither the results nor the statuses. *)
C30_NoStaleResult ==
  /\ [](\A ch \in Channels :
          client.result[ch] # NoShown
            => client.result[ch] = [addr |-> client.addr, scan |-> client.scan])
  /\ [][\A q \in client.reqs :
          (q \notin client'.reqs /\ q.scan < client.scan)
            => (client'.result = client.result /\ client'.status = client.status)]_vars

(* After a scan of tokA that delivered both results, a scan of tokB shows
   its fast result while its slow request is under way. *)
C30_Witness ==
  /\ client.scanned = <<"tokA", "tokB">>
  /\ client.result["fast"] = [addr |-> "tokB", scan |-> 2]
  /\ client.result["slow"] = NoShown
  /\ client.status["slow"] = "loading"
  /\ \E q \in client.reqs : q.chan = "slow" /\ q.scan = 2

(***************************************************************************)
(* Properties of parseUnifiedResponse, under SpecParse.                    *)
(***************************************************************************)

(* C37: for every response that parses, the parsed trustScore is 50 when
   the model's trustScore is missing (absent or null), non-numeric (it
   converts to no number, or it is the empty text or false, which convert
   to zero) or zero, and otherwise the model's score (the number the value
   converts to, true counting as 1 and a numeric text as its number)
   brought into 0..100: 0 below 0, 100 above 100; so the parsed score is
   always within 0..100. *)
C37_ParsedScore ==
  (parser.done /\ parser.text.json) =>
    LET v == parser.text.trustScore
        missing == v.kind \in {"absent", "null"}
        nonNumeric == v.kind \in {"text", "emptyText", "false"}
        given == IF v.kind = "true" THEN 1 ELSE v.n
    IN  /\ parser.out.score \in 0..100
        /\ (missing \/ nonNumeric \/ given = 0) => parser.out.score = 50
        /\ ~(missing \/ nonNumeric \/ given = 0) =>
             parser.out.score = (IF given < 0 THEN 0 ELSE IF given > 100 THEN 100 ELSE given)

(* A response whose trustScore is the number 0 has been parsed to 50. *)
C37_Witness ==
  /\ parser.done
  /\ parser.text.json
  /\ parser.text.trustScore = Value("number", 0)
  /\ parser.out.score = 50

(***************************************************************************)
(* Properties of every result returned, under SpecAnswers.                 *)
(***************************************************************************)

(* C31: every result investigate returns, from the full pipeline, the
   known-offender fast path or the result cache, has a trustScore within
   0..88, whatever trustScore the text of the reasoning service carried;
   so does every result held in the result cache. *)
C31_ScoreWithinCap ==
  /\ \A c \in Calls :
       calls[c].pc = "done" =>
         /\ calls[c].via \in {"full", "fast", "hit"}
         /\ calls[c].result.trustScore \in 0..SCORE_CAP
  /\ \A a \in Addresses :
       resultCache[a].st = "live" => resultCache[a].val.trustScore \in 0..SCORE_CAP

(* The reasoning service scored the token 100 after parsing and the result
   of the full pipeline carries 88, the cap of the deterministic score. *)
C31_Witness ==
  /\ calls[1].pc = "done"
  /\ calls[1].via = "full"
  /\ calls[1].ai.score = 100
  /\ calls[1].result.trustScore = SCORE_CAP

(* A result with a score at the cap has been returned from the cache. *)
CapReturnedFromCache ==
  /\ calls[1].pc = "done"
  /\ calls[1].via = "hit"
  /\ calls[1].result.trustScore = SCORE_CAP

(* C32: in every result investigate returns, isKnownScammer is true exactly
   when the result was built by the known-offender fast path, a result
   from the cache being one the full pipeline built; and a result marked
   isKnownScammer has trustScore 0, verdict Danger, no market data, no
   audit report and visualEvidenceStatus not_captured. *)
C32_KnownOnlyFromFastPath ==
  \A c \in Calls :
    calls[c].pc = "done" =>
      LET res == calls[c].result
      IN  /\ res.known <=> calls[c].via = "fast"
          /\ res.known =>
               /\ res.trustScore = 0
               /\ res.verdict = "Danger"
               /\ ~res.market
               /\ ~res.rug
               /\ res.status = "not_captured"

(* The second investigation stopped at the registry and returned a marked
   result, after the first had been answered by the full pipeline. *)
C32_Witness ==
  /\ calls[1].pc = "done"
  /\ calls[1].via = "fast"
  /\ calls[1].result.known
  /\ budget = 0
  /\ \E k \in Keys : lastFull[k].st = "live" /\ ~lastFull[k].val.known

(* C33: in every result investigate returns, from the full pipeline, the
   fast path or the result cache, when the investigation that built the
   result held no screenshot, visualEvidenceStatus is not_captured and
   visualAssetReuse is UNKNOWN, whatever visual-analysis text the judgment
   carried; visualAssetReuse is YES or NO only in results built with a
   screenshot. *)
C33_NoShotNoVisualClaim ==
  \A c \in Calls :
    calls[c].pc = "done" =>
      LET res == calls[c].result
      IN  /\ calls[c].via = "full" => res.shot = (calls[c].shot = "captured")
          /\ calls[c].via = "fast" => ~res.shot
          /\ ~res.shot => res.status = "not_captured" /\ res.reuse = "UNKNOWN"
          /\ res.reuse \in {"YES", "NO"} => res.shot

(* The judgment asserted visual asset reuse, no screenshot had been
   captured, and the result of the full pipeline reports not_captured and
   UNKNOWN. *)
C33_Witness ==
  /\ calls[1].pc = "done"
  /\ calls[1].via = "full"
  /\ calls[1].shot # "captured"
  /\ reuseYes(calls[1].ai.visual)
  /\ calls[1].result.status = "not_captured"
  /\ calls[1].result.reuse = "UNKNOWN"

(* A result that reports reuse YES, built with a screenshot, has come back
   from the cache. *)
ReuseReturnedFromCache ==
  /\ calls[1].pc = "done"
  /\ calls[1].via = "hit"
  /\ calls[1].result.reuse = "YES"
  /\ calls[1].result.shot

(***************************************************************************)
(* Properties of the registry traffic of one investigation, under          *)
(* SpecEvidence (the registry starts empty).                               *)
(***************************************************************************)

(* C34: a full-pipeline investigation that has concluded Danger has made
   the registry write exactly when the token has a mint or a freeze
   authority, and the write is then the record of that authority; an
   investigation of a token with neither authority issues no registry
   lookup and no registry write at any point, and the creators on record
   are those that were on record when it started. *)
C34_FlagIffAuthority ==
  \A c \in Calls :
    LET r == calls[c]
        info == TokenInfo(trim(r.addr))
        hasAuthority == info.mintAuthority # NULL \/ info.freezeAuthority # NULL
    IN  r.lane = "full" /\ r.pc \notin {"new", "ledger", "failed"} =>
          /\ r.pc = "done" /\ r.via = "full" /\ r.result.verdict = "Danger" =>
               /\ "flag" \in r.issued <=> hasAuthority
               /\ hasAuthority => registry[creatorOf(info)] = 1
          /\ ~hasAuthority =>
               /\ r.issued \cap {"registry", "flag"} = {}
               /\ {x \in Creators : registry[x] > 0} = r.seenKnown

(* A token whose only authority is its freeze authority was judged Danger
   by the full pipeline and the authority is on record. *)
C34_Witness ==
  /\ calls[1].pc = "done"
  /\ calls[1].via = "full"
  /\ calls[1].result.verdict = "Danger"
  /\ calls[1].addr = "tokA2"
  /\ "flag" \in calls[1].issued
  /\ registry["A"] = 1

(* A token with neither authority was judged Danger and nothing was asked
   of the registry or written to it. *)
C34_WitnessNoAuthority ==
  /\ calls[1].pc = "done"
  /\ calls[1].via = "full"
  /\ calls[1].result.verdict = "Danger"
  /\ calls[1].addr = "tokN"
  /\ calls[1].issued \cap {"registry", "flag"} = {}

(***************************************************************************)
(* Properties of the fast path's effect on the shared stores, under        *)
(* SpecCache.                                                              *)
(***************************************************************************)

(* C35 as stated: the fast path leaves the result cache and the registry
   alone, so that every repeated investigate of a subject it has answered
   again performs the ledger fetch and the registry lookup: at any time
   after a subject has been answered through the fast path, the result
   cache holds no live entry for it (an investigate of it would miss the
   cache). *)
C35_Original ==
  \A k \in answered : resultCache[k].st # "live"

(* C35: a step in which investigate returns through the fast path has
   fetched the ledger and looked the registry up, leaves the result cache
   as it was and issues no flagScammer write, the registry changing only
   by the detection the lookup counts.  A live cache entry for a subject
   already answered through the fast path is therefore never a fast-path
   result: it is a full-pipeline result, and the cache comes to hold one
   after the fast path only when a full-pipeline investigation of that
   subject, started before its creator was on record, completes. *)
C35_FastPathFrame ==
  /\ [](\A k \in answered : resultCache[k].st = "live" => ~resultCache[k].val.known)
  /\ [][/\ \A c \in Calls :
             calls[c].lane = "full" /\ calls[c].pc = "registry" /\ calls'[c].via = "fast" =>
               LET creator == creatorOf(TokenInfo(trim(calls[c].addr)))
               IN  /\ resultCache' = resultCache
                   /\ {"ledger", "registry"} \subseteq calls'[c].issued
                   /\ "flag" \notin calls'[c].issued
                   /\ registry' = [registry EXCEPT ![creator] = @ + 1]
        /\ \A k \in answered :
             resultCache[k].st # "live" /\ resultCache'[k].st = "live" =>
               \E c \in Calls :
                 /\ calls[c].lane = "full"
                 /\ trim(calls[c].addr) = k
                 /\ calls'[c].via = "full"
                 /\ creatorOf(TokenInfo(k)) \notin calls[c].seenKnown
       ]_vars

(* The same subject has been answered through the fast path twice, each
   time after a lookup: the record that stood at three detections stands
   at five, and the cache holds nothing for the subject. *)
C35_Witness ==
  \E c \in Calls :
    /\ calls[c].pc = "done"
    /\ calls[c].via = "fast"
    /\ calls[c].addr = "tokA2"
    /\ answered = {"tokA2"}
    /\ registry["A"] = 5
    /\ {"ledger", "registry"} \subseteq calls[c].issued
    /\ resultCache["tokA2"].st # "live"

(* After tokA2 had been answered through the fast path, an investigation
   of tokA2 that had passed the registry check before the creator was
   recorded completed and stored its Caution result. *)
OffenderSubjectCached ==
  /\ "tokA2" \in answered
  /\ resultCache["tokA2"].st = "live"
  /\ resultCache["tokA2"].val.verdict = "Caution"
  /\ registry["A"] = 2

(***************************************************************************)
(* Properties of the in-flight maps, under Spec.                           *)
(***************************************************************************)

(* C36: for fetchDexScreenerData and for fetchRugCheck, a key is in the
   in-flight map only while the request issued for it is outstanding (the
   entry is removed in the turn in which the request settles); the entry
   of every outstanding request is in the map, so that the removal of a
   settled entry has not touched it; and when no call of the function is
   waiting, the map is empty. *)
C36_InflightHygiene ==
  /\ \A k \in DedupKeys :
       /\ dexInflight[k] # 0 =>
            \E c \in Calls : /\ calls[c].id = dexInflight[k]
                             /\ calls[c].addr = k
                             /\ calls[c].dexSrc = calls[c].id
                             /\ "dex" \in calls[c].pend
       /\ rcInflight[k] # 0 =>
            \E c \in Calls : /\ calls[c].id = rcInflight[k]
                             /\ calls[c].addr = k
                             /\ calls[c].rcSrc = calls[c].id
                             /\ "rc" \in calls[c].pend
  /\ \A c \in Calls :
       /\ "dex" \in calls[c].pend /\ calls[c].dexSrc = calls[c].id =>
            dexInflight[calls[c].addr] = calls[c].id
       /\ "rc" \in calls[c].pend /\ calls[c].rcSrc = calls[c].id =>
            rcInflight[calls[c].addr] = calls[c].id
  /\ (\A c \in Calls : "dex" \notin calls[c].pend) => \A k \in DedupKeys : dexInflight[k] = 0
  /\ (\A c \in Calls : "rc" \notin calls[c].pend) => \A k \in DedupKeys : rcInflight[k] = 0

(* Two audit requests for different keys were outstanding; one has settled
   with a 429, which leaves nothing in the cache, and its entry is gone
   while the entry of the other is still in the map. *)
C36_Witness ==
  \E c, d \in Calls :
    /\ c # d
    /\ calls[c].addr # calls[d].addr
    /\ calls[c].rcSrc = calls[c].id
    /\ "rc" \in calls[c].issued
    /\ "rc" \notin calls[c].pend
    /\ rcLimited[calls[c].addr]
    /\ rcInflight[calls[c].addr] = 0
    /\ calls[d].rcSrc = calls[d].id
    /\ "rc" \in calls[d].pend
    /\ rcInflight[calls[d].addr] = calls[d].id

(***************************************************************************)
(* Properties of the legacy scanner's ledger retry, under SpecRetry.       *)
(***************************************************************************)

(* C38 as stated: getTokenMintInfo retries only after an RPC access or
   rate-limit error and at most 3 times, every retry going to the next
   fallback endpoint (an endpoint other than the primary one and other
   than those already asked); any other error, and an RPC error on the
   4th attempt, is handed to the caller; a call makes at most 4 attempts. *)
C38_Original ==
  /\ scanner.retryCount <= maxRetries
  /\ Len(scanner.asked) <= maxRetries + 1
  /\ scanner.pc = "sleep" => isRpcError(scanner.error)
  /\ scanner.pc = "threw" =>
       ~isRpcError(scanner.error) \/ Len(scanner.asked) = maxRetries + 1
  /\ \A i \in 2..Len(scanner.asked) :
       /\ scanner.asked[i] # scanner.endpoints[1]
       /\ \A j \in 1..(i - 1) : scanner.asked[j] # scanner.asked[i]

(* What holds of the retry: the bounds and the errors handed on as stated,
   and every attempt going to the endpoint at its number modulo the number
   of endpoints; a call in progress ends. *)
RetryBoundedAndTerminates ==
  /\ [](/\ scanner.retryCount <= maxRetries
        /\ Len(scanner.asked) = (IF scanner.pc = "idle" THEN 0 ELSE scanner.retryCount + 1)
        /\ scanner.pc = "sleep" => isRpcError(scanner.error)
        /\ scanner.pc = "threw" =>
             ~isRpcError(scanner.error) \/ Len(scanner.asked) = maxRetries + 1
        /\ \A i \in 1..Len(scanner.asked) :
             scanner.asked[i] = scanner.endpoints[((i - 1) % Len(scanner.endpoints)) + 1])
  /\ (scanner.pc \in {"wait", "sleep"}) ~> (scanner.pc \in {"returned", "threw"})

(* Three rate-limit errors in a row with three endpoints configured: the
   4th attempt has gone to the primary endpoint again. *)
C38_Witness ==
  /\ scanner.pc = "wait"
  /\ scanner.retryCount = 3
  /\ scanner.endpoints = <<"helius", "ankr", "public">>
  /\ scanner.asked = <<"helius", "ankr", "public", "helius">>
  /\ isRpcError(scanner.error)

====
